---- MODULE Spec2Model ----
(***************************************************************************)
(* A model of the SmartGliding OGN backend (src/services/*.py).            *)
(*                                                                         *)
(*   Spec        the flight state machine, two aircraft (flight_events.py) *)
(*   SpecEvents  the same for one aircraft, with its house-keeping         *)
(*   SpecPair    the same over a takeoff, a landing and a second takeoff   *)
(*   SpecWinch   the winch release detector (winch_detector.py)            *)
(*   SpecVario   the variometer smoother (variometer_tracker.py)           *)
(*   SpecOgn     the beacon thread, the reaper thread and the broadcast    *)
(*               loop (ogn_client.py, websocket_server.py)                 *)
(*   SpecBeacon  process_beacon as a whole (ogn_client.py)                 *)
(*   SpecServer  the broadcast loop and its subscribers                    *)
(*               (websocket_server.py)                                     *)
(*   SpecAdsb    the presence-gated poller (adsb_client.py)                *)
(*   SpecLoops   the five loops and their exception handlers               *)
(*   SpecMain    the flight state machine as main() starts it (main.py)    *)
(*   SpecView    the poller thread against the event loop, with the        *)
(*               pictures the subscribers build                            *)
(*   SpecCleanup the beacon thread against the flight-state cleanup thread *)
(*   SpecDrain   the broadcast loop under a steady stream of beacons       *)
(*   SpecReap    the reaper's scan against the beacon thread, scheduled    *)
(*               fairly                                                    *)
(*   SpecRefresh the cache refresh thread against the beacon thread        *)
(*               (db.py)                                                   *)
(*   SpecSnapshot the snapshot a new subscriber is sent                    *)
(*   SpecIdle    one aircraft that falls silent, with the idle cleanup     *)
(*               scheduled fairly                                          *)
(*   SpecCycle   one aircraft over two flights, with the idle cleanup      *)
(*                                                                         *)
(* Times are seconds (datetime.now() is the variable now), altitudes are   *)
(* metres, speeds km/h, distances hectometres on a line (0.3 km = 3).      *)
(***************************************************************************)
EXTENDS Integers, Sequences, FiniteSets, TLC

VARIABLES
    now,                     \* datetime.now(), in seconds
    aircraft_flight_states,  \* flight_events.py:45   id -> Flight State
    recent_takeoffs,         \* flight_events.py:56   list of takeoff records
    airfields,               \* flight_events.py:64   the loaded gazetteer
    registered_homefields,   \* db.py:46              the homefield cache
    logged,                  \* the latest process_flight_events call and its log_event
    takeoff_events,          \* id -> the latest takeoff event passed to log_event
    event_times,             \* id -> the time of the latest event passed to log_event
    winch_launch_data,       \* winch_detector.py:19  id -> Winch Tracking Record
    winch_call,              \* the latest update_winch_tracking call and what it returned
    winch_seen,              \* id -> the altitudes seen since start_winch_tracking
    winch_outcome,           \* id -> the releases and the abandonment since start_winch_tracking
    variometer_history,      \* variometer_tracker.py:16  id -> ring of samples
    variometer_all,          \* id -> every sample update_variometer was called with
    variometer_call,         \* the latest update_variometer call and what it returned
    aircraft_data,           \* config.py:55         id -> primary-source Live State
    aircraft_update_queue,   \* ogn_client.py:30
    aircraft_removal_queue,  \* ogn_client.py:31
    produced,                \* the number of messages the producers have enqueued
    sent,                    \* the primary-source messages broadcast to the subscribers
    beacon_pc,               \* the aircraft of the beacon between lines 126 and 205
    beacon_call,             \* the number of beacons ProcessBeacon handled and the latest one
    reaper_pc,               \* where cleanup_aircraft_data stands
    to_delete,               \* ogn_client.py:247    the reaper's list
    reaper_wake,             \* the end of the reaper's sleep
    get_connected_clients_count, \* adsb_client.py:33  TRUE once the callback is installed
    connected_clients,       \* websocket_server.py:22
    queue_task,              \* where process_update_queues stands
    adsb_aircraft_data,      \* adsb_client.py:24    id -> secondary-source Live State
    adsb_aircraft_queue,     \* adsb_client.py:21
    last_had_clients,        \* adsb_client.py:201
    last_cleanup_time,       \* adsb_client.py:202
    adsb_tick,               \* the number of the latest poller tick, what it observed and did
    dequeued,                \* the messages the broadcast loop took off the queues, in order
    delivered,               \* subscriber -> the messages written to it, in order
    loop_state,              \* loop -> whether it still runs, and its ticks so far
    poller_pc,               \* where fetch_and_process_data stands within a tick
    view,                    \* subscriber -> the secondary-source picture it has built
    cleanup_filtered,        \* flight_events.py:467  the filtered list cleanup_state has not bound yet
    club_flarm_ids,          \* config.py:53         the club-aircraft cache
    cache_refresh            \* db.py:451, 468       the set update_club_planes_cache read and the set it has not stored yet

flightVars == <<aircraft_flight_states, recent_takeoffs, airfields,
                registered_homefields, logged, takeoff_events, event_times>>

winchVars == <<winch_launch_data, winch_call, winch_seen, winch_outcome>>

ognVars == <<aircraft_data, aircraft_update_queue, aircraft_removal_queue,
             produced, sent, beacon_pc, beacon_call, reaper_pc, to_delete,
             reaper_wake>>

serverVars == <<get_connected_clients_count, connected_clients, queue_task>>

adsbVars == <<adsb_aircraft_data, adsb_aircraft_queue, last_had_clients,
              last_cleanup_time, adsb_tick>>

varioVars == <<variometer_history, variometer_all, variometer_call>>

deliveryVars == <<dequeued, delivered>>

threadVars == <<poller_pc, view, cleanup_filtered, club_flarm_ids,
                cache_refresh>>

netVars == <<ognVars, serverVars, adsbVars, varioVars, deliveryVars, threadVars,
             loop_state>>

vars == <<now, flightVars, winchVars, netVars>>

NoneVal == "None"

\* None and Some(x): an optional value that is not a string.
None == <<>>

Some(x) == <<x>>

(***************************************************************************)
(* Bounds of the model.                                                    *)
(***************************************************************************)
MaxTime == 10

\* The steps by which the clock advances between two handler calls.
Steps == {5, 10}

(***************************************************************************)
(* Constants of flight_events.py.                                          *)
(***************************************************************************)
TAKEOFF_SPEED_THRESHOLD == 30
TAKEOFF_ALTITUDE_THRESHOLD == 20
LANDING_ALTITUDE_THRESHOLD == 100
TAKEOFF_TOW_DISTANCE_THRESHOLD == 3
TOW_START_TIME_WINDOW == 5
EVENT_COOLDOWN == 10
RECENT_TAKEOFF_HORIZON == 30
RECENT_TAKEOFF_CAP == 60
FLIGHT_STATE_IDLE == 1800
AIRFIELD_MAX_DISTANCE == 50

TOW_PLANE_MODELS ==
    {"PA-25", "PAWNEE", "RALLYE", "DR-400", "ROBIN", "MAULE", "CUB", "WILGA",
     "HUSKY", "SUPER CUB", "SCOUT", "CITABRIA", "CESSNA", "PIPER"}

(***************************************************************************)
(* The aircraft of the model: a glider and a tow plane. The type is the    *)
(* one read from the APRS symbol, the model the one of the device          *)
(* registry; both travel in every aircraft_data passed to the handlers.    *)
(***************************************************************************)
Aircraft == {"G", "T"}

AircraftType(a) == IF a = "G" THEN "Glider" ELSE "Drop plane/Powered aircraft"

AircraftModel(a) == IF a = "G" THEN "ASK 21" ELSE "Piper PA-25 Pawnee"

\* The upper-cased parts of a model name that the roster can match.
ModelParts(model) ==
    CASE model = "Piper PA-25 Pawnee" -> {"PIPER", "PA-25", "PAWNEE"}
      [] model = "ASK 21"             -> {"ASK", "21"}
      [] OTHER                        -> {}

\* Positions on a line, in hectometres: 0, 1 and 4 are around the airfield
\* (1 and 4 are 0.3 km apart, 0 and 4 are 0.4 km apart), 60 is 6 km away.
FieldPositions == {0, 1, 4}
AwayPositions == {0, 60}

Speeds == {10, 30}
Altitudes == {None, Some(10), Some(100), Some(150)}

\* The samples a beacon can carry at the positions P: slow or fast, on the
\* ground, at 100 m or at 150 m, or without altitude. The fast sample at
\* 100 m stands for every airborne one.
Samples(P) ==
    {s \in [ground_speed : Speeds, altitude : Altitudes, pos : P] :
        s.ground_speed = 30 => s.altitude \in {Some(10), Some(100)}}

\* The gazetteer file (dk_airfields.json): one airfield, at position 0.
AirfieldsFile == <<[name |-> "Alpha", icao |-> "EKAA", pos |-> 0]>>

Abs(x) == IF x < 0 THEN -x ELSE x

calculate_distance(p, q) == Abs(p - q)

is_tow_plane(aircraft_type, aircraft_model) ==
    \/ aircraft_type \in {"Drop plane/Powered aircraft"}
    \/ /\ aircraft_model # ""
       /\ ModelParts(aircraft_model) \cap TOW_PLANE_MODELS # {}

is_glider(aircraft_type, aircraft_model) ==
    aircraft_type = "Glider" /\ ~is_tow_plane(aircraft_type, aircraft_model)

\* The value a defaultdict lookup creates (flight_events.py:45-53).
DefaultFlightState ==
    [is_airborne     |-> NoneVal,
     last_position   |-> None,
     last_update     |-> None,
     last_event      |-> NoneVal,
     takeoff_time    |-> None,
     start_type      |-> NoneVal,
     last_event_time |-> None]

\* aircraft_flight_states[aircraft_id], creating the entry when missing.
StateOf(a) ==
    IF a \in DOMAIN aircraft_flight_states
    THEN aircraft_flight_states[a] ELSE DefaultFlightState

WithState(states, a, st) ==
    [x \in DOMAIN states \cup {a} |-> IF x = a THEN st ELSE states[x]]

(***************************************************************************)
(* find_nearest_airfield and log_event (flight_events.py:119-244).         *)
(***************************************************************************)
RECURSIVE NearestFrom(_, _, _)
\* The loop of find_nearest_airfield: a strictly smaller distance replaces
\* the candidate, so the first of two equally near airfields is kept.
NearestFrom(list, pos, best) ==
    IF list = <<>> THEN best
    ELSE LET af == Head(list)
             d  == calculate_distance(pos, af.pos)
         IN IF best = None \/ d < best[1].distance
            THEN NearestFrom(Tail(list), pos,
                     Some([name |-> af.name, icao |-> af.icao, distance |-> d]))
            ELSE NearestFrom(Tail(list), pos, best)

find_nearest_airfield(pos) ==
    IF airfields = <<>> THEN None
    ELSE LET nearest == NearestFrom(airfields, pos, None)
         IN IF nearest # None /\ nearest[1].distance > AIRFIELD_MAX_DISTANCE
            THEN Some([name |-> "UNKNOWN", icao |-> "UNKNOWN", distance |-> 0])
            ELSE nearest

\* The ICAO code log_event resolves, NoneVal when there is none.
ResolvedIcao(pos) ==
    LET nearest == find_nearest_airfield(pos)
    IN IF nearest # None /\ nearest[1].name # "UNKNOWN"
       THEN nearest[1].icao ELSE NoneVal

\* A filter that lets every resolved airfield pass.
AnyHomefield(icao) == TRUE

\* is_registered_homefield (db.py:353-355).
is_registered_homefield(icao) == icao \in registered_homefields

\* log_event: the event it is called with, and whether it passes the
\* homefield filter and is stored and sent to the webhook.
log_event(event_type, a, s, start_type, paired_with) ==
    LET airfield_icao == ResolvedIcao(s.pos)
    IN [type        |-> event_type,
        id          |-> a,
        time        |-> now,
        pos         |-> s.pos,
        start_type  |-> start_type,
        paired_with |-> paired_with,
        airfield    |-> airfield_icao,
        stored      |-> airfield_icao # NoneVal
                          /\ is_registered_homefield(airfield_icao)]

(***************************************************************************)
(* detect_launch_type (flight_events.py:247-307).                          *)
(***************************************************************************)
\* recent_takeoffs without the records of age >= horizon.
Pruned(list, horizon) == SelectSeq(list, LAMBDA t : now - t.time < horizon)

\* A pairing that forgets the distance.
PairsAtAnyDistance(a, pos, takeoff_time, t) ==
    /\ t.id # a
    /\ takeoff_time - TOW_START_TIME_WINDOW <= t.time
    /\ t.time <= takeoff_time + TOW_START_TIME_WINDOW
    /\ \/ /\ is_glider(AircraftType(a), AircraftModel(a))
          /\ is_tow_plane(t.type, t.model)
       \/ /\ is_tow_plane(AircraftType(a), AircraftModel(a))
          /\ is_glider(t.type, t.model)

\* A pairing by time and place alone.
PairsByTimeAndPlace(a, pos, takeoff_time, t) ==
    /\ takeoff_time - TOW_START_TIME_WINDOW <= t.time
    /\ t.time <= takeoff_time + TOW_START_TIME_WINDOW
    /\ calculate_distance(pos, t.pos) <= TAKEOFF_TOW_DISTANCE_THRESHOLD

\* Whether record t of the list pairs with aircraft a taking off at pos.
Pairs(a, pos, takeoff_time, t) ==
    /\ t.id # a
    /\ takeoff_time - TOW_START_TIME_WINDOW <= t.time
    /\ t.time <= takeoff_time + TOW_START_TIME_WINDOW
    /\ calculate_distance(pos, t.pos) <= TAKEOFF_TOW_DISTANCE_THRESHOLD
    /\ \/ /\ is_glider(AircraftType(a), AircraftModel(a))
          /\ is_tow_plane(t.type, t.model)
       \/ /\ is_tow_plane(AircraftType(a), AircraftModel(a))
          /\ is_glider(t.type, t.model)

\* The (start_type, paired_with) detect_launch_type returns, on the pruned list.
detect_launch_type(a, pos, takeoff_time, list) ==
    LET hits == {i \in 1..Len(list) : Pairs(a, pos, takeoff_time, list[i])}
    IN IF hits # {}
       THEN LET first == CHOOSE i \in hits : \A j \in hits : i <= j
            IN [start_type  |-> IF is_glider(AircraftType(a), AircraftModel(a))
                                THEN "tow" ELSE "tow_plane",
                paired_with |-> list[first].id]
       ELSE IF is_glider(AircraftType(a), AircraftModel(a))
            THEN [start_type |-> "winch", paired_with |-> NoneVal]
            ELSE [start_type |-> NoneVal, paired_with |-> NoneVal]

(***************************************************************************)
(* process_flight_events (flight_events.py:310-449). Each operator below   *)
(* is one exit of the function and gives what the call leaves behind:      *)
(*   state   the aircraft's Flight State                                   *)
(*   recent  recent_takeoffs                                               *)
(*   event   the event handed to log_event, None when there is none        *)
(*   ret     the value returned                                            *)
(***************************************************************************)
current_airborne(s) ==
    /\ s.ground_speed >= TAKEOFF_SPEED_THRESHOLD
    /\ s.altitude[1] >= TAKEOFF_ALTITUDE_THRESHOLD

Position(s) == Some([altitude |-> s.altitude[1], ground_speed |-> s.ground_speed])

\* A cooldown that compares with the tow window instead of EVENT_COOLDOWN.
InCooldownShort(state) ==
    /\ state.last_event_time # None
    /\ now - state.last_event_time[1] < TOW_START_TIME_WINDOW

InCooldown(state) ==
    /\ state.last_event_time # None
    /\ now - state.last_event_time[1] < EVENT_COOLDOWN

\* Lines 319-334: in cooldown, or a sample without altitude: nothing changes
\* but the entry the defaultdict lookup of line 316 created.
Skipped(a, s) ==
    [state |-> StateOf(a), recent |-> recent_takeoffs, event |-> None,
     ret |-> FALSE]

\* A first sample that reports the state it finds as an event.
FirstSampleLogsEvent(a, s) ==
    [state  |-> [StateOf(a) EXCEPT
                    !.is_airborne = IF current_airborne(s) THEN "True" ELSE "False",
                    !.last_position = Position(s),
                    !.last_update = Some(now),
                    !.last_event = IF current_airborne(s) THEN "takeoff" ELSE "landing",
                    !.last_event_time = Some(now)],
     recent |-> recent_takeoffs,
     event  |-> Some(log_event(IF current_airborne(s) THEN "takeoff" ELSE "landing",
                               a, s, NoneVal, NoneVal)),
     ret    |-> TRUE]

\* Lines 342-359: the first sample of an aircraft.
FirstSample(a, s) ==
    [state  |-> [StateOf(a) EXCEPT
                    !.is_airborne = IF current_airborne(s) THEN "True" ELSE "False",
                    !.last_position = Position(s),
                    !.last_update = Some(now)],
     recent |-> recent_takeoffs,
     event  |-> None,
     ret    |-> FALSE]

\* A takeoff that starts the cooldown only when its event is emitted.
TakeoffCooldownWhenEmitted(a, s) ==
    LET appended == Append(recent_takeoffs,
                        [id |-> a, time |-> now, pos |-> s.pos,
                         type |-> AircraftType(a), model |-> AircraftModel(a)])
        pruned   == Pruned(appended, RECENT_TAKEOFF_HORIZON)
        launch   == detect_launch_type(a, s.pos, now, pruned)
        event    == log_event("takeoff", a, s, launch.start_type,
                              launch.paired_with)
    IN [state  |-> [StateOf(a) EXCEPT
                       !.last_position = Position(s),
                       !.last_update = Some(now),
                       !.is_airborne = "True",
                       !.last_event = "takeoff",
                       !.takeoff_time = Some(now),
                       !.last_event_time = IF event.stored THEN Some(now) ELSE @,
                       !.start_type = IF launch.start_type # NoneVal
                                      THEN launch.start_type ELSE @],
        recent |-> pruned,
        event  |-> Some(event),
        ret    |-> TRUE]

\* Lines 375-413: a takeoff that fires.
Takeoff(a, s) ==
    LET appended == Append(recent_takeoffs,
                        [id |-> a, time |-> now, pos |-> s.pos,
                         type |-> AircraftType(a), model |-> AircraftModel(a)])
        pruned   == Pruned(appended, RECENT_TAKEOFF_HORIZON)
        launch   == detect_launch_type(a, s.pos, now, pruned)
    IN [state  |-> [StateOf(a) EXCEPT
                       !.last_position = Position(s),
                       !.last_update = Some(now),
                       !.is_airborne = "True",
                       !.last_event = "takeoff",
                       !.takeoff_time = Some(now),
                       !.last_event_time = Some(now),
                       !.start_type = IF launch.start_type # NoneVal
                                      THEN launch.start_type ELSE @],
        recent |-> pruned,
        event  |-> Some(log_event("takeoff", a, s, launch.start_type,
                                  launch.paired_with)),
        ret    |-> TRUE]

\* A landing that leaves the stored label in the Flight State.
LandingKeepsLabel(a, s) ==
    [state  |-> [StateOf(a) EXCEPT
                    !.last_position = Position(s),
                    !.last_update = Some(now),
                    !.is_airborne = "False",
                    !.last_event = "landing",
                    !.last_event_time = Some(now)],
     recent |-> recent_takeoffs,
     event  |-> Some(log_event("landing", a, s, StateOf(a).start_type, NoneVal)),
     ret    |-> TRUE]

\* Lines 415-442: a landing that fires; the stored label is handed to
\* log_event and then deleted.
Landing(a, s) ==
    [state  |-> [StateOf(a) EXCEPT
                    !.last_position = Position(s),
                    !.last_update = Some(now),
                    !.is_airborne = "False",
                    !.last_event = "landing",
                    !.last_event_time = Some(now),
                    !.start_type = NoneVal],
     recent |-> recent_takeoffs,
     event  |-> Some(log_event("landing", a, s, StateOf(a).start_type, NoneVal)),
     ret    |-> TRUE]

\* Lines 366-373 and 444-449: the sample is stored and no event fires.
NoEvent(a, s) ==
    [state  |-> [StateOf(a) EXCEPT
                    !.last_position = Position(s),
                    !.last_update = Some(now)],
     recent |-> recent_takeoffs,
     event  |-> None,
     ret    |-> FALSE]

\* A takeoff that asks for a previous sample below both thresholds.
TakeoffFiresFromStandstill(state, s) ==
    /\ state.is_airborne = "False"
    /\ current_airborne(s)
    /\ state.last_position[1].ground_speed < TAKEOFF_SPEED_THRESHOLD
    /\ state.last_position[1].altitude < TAKEOFF_ALTITUDE_THRESHOLD

\* A takeoff that does not look at the airborne flag.
TakeoffFiresWhateverTheFlag(state, s) ==
    /\ current_airborne(s)
    /\ \/ state.last_position[1].ground_speed < TAKEOFF_SPEED_THRESHOLD
       \/ state.last_position[1].altitude < TAKEOFF_ALTITUDE_THRESHOLD

TakeoffFires(state, s) ==
    /\ state.is_airborne = "False"
    /\ current_airborne(s)
    /\ \/ state.last_position[1].ground_speed < TAKEOFF_SPEED_THRESHOLD
       \/ state.last_position[1].altitude < TAKEOFF_ALTITUDE_THRESHOLD

\* A landing that fires on the speed drop alone.
LandingFiresAtAnyAltitude(state, s) ==
    /\ state.is_airborne = "True"
    /\ ~current_airborne(s)

LandingFires(state, s) ==
    /\ state.is_airborne = "True"
    /\ ~current_airborne(s)
    /\ s.altitude[1] <= LANDING_ALTITUDE_THRESHOLD

process_flight_events(a, s) ==
    LET state == StateOf(a)
    IN IF InCooldown(state) THEN Skipped(a, s)
       ELSE IF s.altitude = None THEN Skipped(a, s)
       ELSE IF state.is_airborne = NoneVal THEN FirstSample(a, s)
       ELSE IF TakeoffFires(state, s) THEN Takeoff(a, s)
       ELSE IF LandingFires(state, s) THEN Landing(a, s)
       ELSE NoEvent(a, s)

(***************************************************************************)
(* The actions of the flight state machine.                                *)
(***************************************************************************)
\* What one call of process_flight_events leaves behind.
FlightEventsEffect(a, s) ==
    LET out == process_flight_events(a, s)
    IN /\ aircraft_flight_states' = WithState(aircraft_flight_states, a, out.state)
       /\ recent_takeoffs' = out.recent
       /\ logged' = [id |-> a, ground_speed |-> s.ground_speed,
                     altitude |-> s.altitude, event |-> out.event]
       /\ takeoff_events' =
             IF out.event # None /\ out.event[1].type = "takeoff"
             THEN [takeoff_events EXCEPT ![a] =
                      Some([time        |-> out.event[1].time,
                            pos         |-> out.event[1].pos,
                            start_type  |-> out.event[1].start_type,
                            paired_with |-> out.event[1].paired_with])]
             ELSE takeoff_events
       /\ event_times' =
             IF out.event # None
             THEN [event_times EXCEPT ![a] = Some(out.event[1].time)]
             ELSE event_times

ProcessFlightEvents(a, s) ==
    /\ FlightEventsEffect(a, s)
    /\ UNCHANGED <<now, airfields, registered_homefields, winchVars, netVars>>

\* cleanup_state (flight_events.py:452-468).
CleanupState ==
    /\ aircraft_flight_states' =
          [a \in {x \in DOMAIN aircraft_flight_states :
                     ~(/\ aircraft_flight_states[x].last_update # None
                       /\ now - aircraft_flight_states[x].last_update[1]
                              > FLIGHT_STATE_IDLE)}
              |-> aircraft_flight_states[a]]
    /\ recent_takeoffs' = Pruned(recent_takeoffs, RECENT_TAKEOFF_CAP)
    /\ UNCHANGED <<now, airfields, registered_homefields, logged, takeoff_events,
                   event_times, winchVars, netVars>>

\* cleanup_state as the cleanup thread runs it beside the beacon thread:
\* lines 454-463 and the list comprehension of lines 467-468, which reads
\* recent_takeoffs and builds the filtered list.
CleanupFilter ==
    /\ cleanup_filtered = None
    /\ aircraft_flight_states' =
          [a \in {x \in DOMAIN aircraft_flight_states :
                     ~(/\ aircraft_flight_states[x].last_update # None
                       /\ now - aircraft_flight_states[x].last_update[1]
                              > FLIGHT_STATE_IDLE)}
              |-> aircraft_flight_states[a]]
    /\ cleanup_filtered' = Some(Pruned(recent_takeoffs, RECENT_TAKEOFF_CAP))
    /\ UNCHANGED <<now, recent_takeoffs, airfields, registered_homefields, logged,
                   takeoff_events, event_times, winchVars, ognVars, serverVars,
                   adsbVars, varioVars, deliveryVars, poller_pc, view, loop_state, club_flarm_ids, cache_refresh>>

\* The assignment of line 467: the global is bound to the filtered list.
CleanupRebind ==
    /\ cleanup_filtered # None
    /\ recent_takeoffs' = cleanup_filtered[1]
    /\ cleanup_filtered' = None
    /\ UNCHANGED <<now, aircraft_flight_states, airfields, registered_homefields,
                   logged, takeoff_events, event_times, winchVars, ognVars,
                   serverVars, adsbVars, varioVars, deliveryVars, poller_pc, view,
                   loop_state, club_flarm_ids, cache_refresh>>

\* initialize_events_file (flight_events.py:67-78): the file loads, or the
\* load fails and the list is left empty.
InitializeEventsFile ==
    /\ airfields = <<>>
    /\ airfields' \in {AirfieldsFile, <<>>}
    /\ UNCHANGED <<now, aircraft_flight_states, recent_takeoffs,
                   registered_homefields, logged, takeoff_events, event_times,
                   winchVars, netVars>>

\* update_registered_homefields_cache (db.py:312-351): the cache is replaced
\* by the homefields the clubs collection holds.
UpdateRegisteredHomefieldsCache ==
    /\ registered_homefields' \in SUBSET {"EKAA"}
    /\ UNCHANGED <<now, aircraft_flight_states, recent_takeoffs, airfields,
                   logged, takeoff_events, event_times, winchVars, netVars>>

\* Time passing between two calls.
Advance(d) ==
    /\ now + d <= MaxTime
    /\ now' = now + d
    /\ UNCHANGED <<flightVars, winchVars, netVars>>

\* A long silence: more than the idle timeout of the Flight States.
LongSilence ==
    /\ now <= MaxTime
    /\ now' = now + FLIGHT_STATE_IDLE + 1
    /\ UNCHANGED <<flightVars, winchVars, netVars>>

\* The subscribers that can connect (websocket_server.py:22).
Clients == {"c1", "c2"}

\* The five loops: client.run with process_beacon as its callback, the
\* poller, the reaper, the flight-state cleanup and process_update_queues.
Loops == {"beacon", "poller", "reaper", "cleanup", "broadcast"}

\* A loop that runs and has not ticked yet.
NoTicks == [running |-> TRUE, ticks |-> 0, caught |-> 0, last |-> NoneVal, sleep |-> 0]

NoVarioCall == [id |-> NoneVal, result |-> None]

NoOutcome == [releases |-> 0, abandoned |-> FALSE]

NoWinchCall ==
    [id |-> NoneVal, altitude |-> None, climb_rate |-> 0, result |-> None,
     raised |-> FALSE]

NoTick ==
    [n |-> 0, has_clients |-> FALSE, cleared |-> FALSE, fetched |-> FALSE,
     passing |-> None]

NoBeaconCall ==
    [n |-> 0,
     raw |-> [parses |-> FALSE, beacon_type |-> "Unknown", latitude |-> "absent",
              longitude |-> "absent", address |-> NoneVal, name |-> NoneVal]]

NoCall == [id |-> NoneVal, ground_speed |-> 0, altitude |-> None, event |-> None]

Init ==
    /\ now = 0
    /\ aircraft_flight_states = [a \in {} |-> DefaultFlightState]
    /\ recent_takeoffs = <<>>
    /\ airfields = <<>>
    /\ registered_homefields = {}
    /\ logged = NoCall
    /\ takeoff_events = [a \in Aircraft |-> None]
    /\ event_times = [a \in Aircraft |-> None]
    /\ winch_launch_data = [a \in {} |-> None]
    /\ winch_call = NoWinchCall
    /\ winch_seen = [a \in Aircraft |-> {}]
    /\ winch_outcome = [a \in Aircraft |-> NoOutcome]
    /\ variometer_history = [a \in {} |-> <<>>]
    /\ variometer_all = [a \in Aircraft |-> <<>>]
    /\ variometer_call = NoVarioCall
    /\ aircraft_data = [a \in {} |-> None]
    /\ aircraft_update_queue = <<>>
    /\ aircraft_removal_queue = <<>>
    /\ produced = 0
    /\ sent = <<>>
    /\ beacon_pc = None
    /\ beacon_call = NoBeaconCall
    /\ reaper_pc = "scan"
    /\ to_delete = {}
    /\ reaper_wake = 0
    /\ get_connected_clients_count = FALSE
    /\ connected_clients = {}
    /\ queue_task = "not started"
    /\ adsb_aircraft_data = [a \in {} |-> None]
    /\ adsb_aircraft_queue = <<>>
    /\ last_had_clients = FALSE
    /\ last_cleanup_time = 0
    /\ adsb_tick = NoTick
    /\ dequeued = <<>>
    /\ delivered = [c \in Clients |-> <<>>]
    /\ loop_state = [l \in Loops |-> NoTicks]
    /\ poller_pc = "idle"
    /\ view = [c \in Clients |-> None]
    /\ cleanup_filtered = None
    /\ club_flarm_ids = {"G"}
    /\ cache_refresh = None

\* The beacons of the aircraft in S, and time passing between them.
FlightNext(S, P) ==
    \/ \E a \in S, s \in Samples(P) : ProcessFlightEvents(a, s)
    \/ \E d \in Steps : Advance(d)

Next == FlightNext(Aircraft, FieldPositions)

Spec == Init /\ [][Next]_vars

\* One aircraft, with the house-keeping around the state machine: the
\* gazetteer and the homefield cache being loaded, and the idle cleanup.
NextEvents ==
    \/ FlightNext({"G"}, AwayPositions)
    \/ CleanupState
    \/ InitializeEventsFile
    \/ UpdateRegisteredHomefieldsCache
    \/ LongSilence

SpecEvents == Init /\ [][NextEvents]_vars

\* The glider sends samples for a while and is silent from then on;
\* periodically_cleanup_state (ogn_client.py:215-223) calls cleanup_state
\* every 300 s for ever, and time passes.
SampleBeforeSilence(s) == now <= MaxTime /\ ProcessFlightEvents("G", s)

NextIdle ==
    \/ \E s \in Samples({0}) : SampleBeforeSilence(s)
    \/ \E d \in Steps : Advance(d)
    \/ CleanupState
    \/ LongSilence

SpecIdle ==
    /\ Init
    /\ [][NextIdle]_vars
    /\ WF_vars(CleanupState)
    /\ WF_vars(LongSilence)

\* The glider at the airfield over two flights (takeoff, landing, takeoff,
\* landing: the cooldown is 10 s), with every kind of sample, the idle
\* cleanup and, early in the run, a silence that outlasts the idle timeout.
MaxCycleTime == 30

AdvanceCycle(d) ==
    /\ now + d <= MaxCycleTime
    /\ now' = now + d
    /\ UNCHANGED <<flightVars, winchVars, netVars>>

NextCycle ==
    \/ \E s \in Samples({0}) : ProcessFlightEvents("G", s)
    \/ \E d \in Steps : AdvanceCycle(d)
    \/ CleanupState
    \/ LongSilence

SpecCycle == Init /\ [][NextCycle]_vars

\* The beacon thread and the cleanup thread (ogn_client.py:214-223) side by
\* side, both aircraft at the airfield: the beacon thread runs whole
\* handlers between the two steps of cleanup_state.
NextCleanup ==
    \/ FlightNext(Aircraft, {0})
    \/ CleanupFilter
    \/ CleanupRebind

SpecCleanup == Init /\ [][NextCleanup]_vars

\* Both aircraft at the airfield over the time it takes one of them to take
\* off, land, take off again while its first takeoff is still in
\* recent_takeoffs, and land again: the cooldown is 10 s, the list is pruned
\* at 30 s.
MaxPairTime == 30
PairSteps == {10}

\* On the ground at 10 m, or airborne at 100 m.
PairSamples ==
    {s \in Samples({0}) :
        s.altitude = IF s.ground_speed = 30 THEN Some(100) ELSE Some(10)}

AdvancePair(d) ==
    /\ now + d <= MaxPairTime
    /\ now' = now + d
    /\ UNCHANGED <<flightVars, winchVars, netVars>>

NextPair ==
    \/ \E a \in Aircraft, s \in PairSamples : ProcessFlightEvents(a, s)
    \/ \E d \in PairSteps : AdvancePair(d)

SpecPair == Init /\ [][NextPair]_vars

(***************************************************************************)
(* The winch release detector (winch_detector.py).                         *)
(***************************************************************************)
WINCH_CLIMB_RATE_THRESHOLD == 5
WINCH_DETECTION_TIMEOUT == 120
WINCH_MIN_ALTITUDE_GAIN == 100
WINCH_IDLE == 600

MaxWinchTime == 140

WinchSteps == {20, 100}

\* The altitudes (m, None when the beacon has none) and the climb rates
\* (m/s) of the samples.
WinchAltitudes == {None, Some(50), Some(120), Some(150), Some(200)}
ClimbRates == {4, 5}

\* start_winch_tracking (winch_detector.py:28-38).
StartWinchTracking(a, altitude) ==
    /\ winch_launch_data' =
          [x \in DOMAIN winch_launch_data \cup {a} |->
              IF x = a
              THEN [is_in_winch           |-> TRUE,
                    launch_start_time     |-> now,
                    launch_start_altitude |-> altitude,
                    max_altitude          |-> altitude,
                    last_update           |-> now,
                    detected_release      |-> FALSE]
              ELSE winch_launch_data[x]]
    /\ winch_seen' = [winch_seen EXCEPT ![a] = {altitude}]
    /\ winch_outcome' = [winch_outcome EXCEPT ![a] = NoOutcome]
    /\ UNCHANGED <<now, flightVars, winch_call, netVars>>

WithoutKey(f, a) == [x \in DOMAIN f \ {a} |-> f[x]]

\* A maximum that is overwritten by every sample.
MaxAltitudeLatest(data, altitude) == altitude

\* The running maximum after a sample (winch_detector.py:59-61).
MaxAltitude(data, altitude) ==
    IF altitude > data.max_altitude THEN altitude ELSE data.max_altitude

\* A detector that looks for the release before it looks at the clock.
WinchTimedOutAfterRelease(data) ==
    /\ now - data.launch_start_time > WINCH_DETECTION_TIMEOUT
    /\ data.detected_release

WinchTimedOut(data) == now - data.launch_start_time > WINCH_DETECTION_TIMEOUT

ReleaseDetected(data, climb_rate) ==
    climb_rate < WINCH_CLIMB_RATE_THRESHOLD /\ ~data.detected_release

\* What update_winch_tracking leaves for a tracked aircraft (lines 56-96):
\*   data    the record, None when it is deleted
\*   result  the release returned, None when nothing is returned
\*   raised  the comparison of line 60 raised TypeError on a None altitude
update_winch_tracking(a, altitude, climb_rate) ==
    LET data    == winch_launch_data[a]
        touched == [data EXCEPT !.last_update = now]
    IN IF altitude = None
       THEN [data |-> Some(touched), result |-> None, raised |-> TRUE]
       ELSE LET maxed == [touched EXCEPT
                             !.max_altitude = MaxAltitude(data, altitude[1])]
                gain  == maxed.max_altitude - maxed.launch_start_altitude
            IN IF WinchTimedOut(data)
               THEN [data   |-> Some([maxed EXCEPT !.is_in_winch = FALSE]),
                     result |-> None, raised |-> FALSE]
               ELSE IF ReleaseDetected(data, climb_rate)
               THEN IF gain >= WINCH_MIN_ALTITUDE_GAIN
                    THEN [data   |-> None,
                          result |-> Some([winch_launch_altitude |-> maxed.max_altitude,
                                           winch_launch_duration |->
                                              now - data.launch_start_time]),
                          raised |-> FALSE]
                    ELSE [data   |-> Some([maxed EXCEPT !.is_in_winch = FALSE]),
                          result |-> None, raised |-> FALSE]
               ELSE [data |-> Some(maxed), result |-> None, raised |-> FALSE]

\* A detector that only looks for the record.
RecordAbsent(a) == a \notin DOMAIN winch_launch_data

\* The early returns of lines 47-54.
NotTracking(a) ==
    a \notin DOMAIN winch_launch_data \/ ~winch_launch_data[a].is_in_winch

\* What one call of update_winch_tracking leaves behind.
WinchTrackingEffect(a, altitude, climb_rate) ==
    IF NotTracking(a)
       THEN /\ winch_call' = [id |-> a, altitude |-> altitude,
                              climb_rate |-> climb_rate, result |-> None,
                              raised |-> FALSE]
            /\ UNCHANGED <<winch_launch_data, winch_seen, winch_outcome>>
       ELSE LET out == update_winch_tracking(a, altitude, climb_rate)
            IN /\ winch_launch_data' =
                     IF out.data = None THEN WithoutKey(winch_launch_data, a)
                     ELSE [winch_launch_data EXCEPT ![a] = out.data[1]]
               /\ winch_call' = [id |-> a, altitude |-> altitude,
                                 climb_rate |-> climb_rate,
                                 result |-> out.result, raised |-> out.raised]
               /\ winch_seen' =
                     IF altitude = None THEN winch_seen
                     ELSE [winch_seen EXCEPT ![a] = @ \cup {altitude[1]}]
               /\ winch_outcome' =
                     [winch_outcome EXCEPT
                        ![a].releases  = IF out.result # None THEN @ + 1 ELSE @,
                        ![a].abandoned = @ \/ (/\ out.data # None
                                               /\ ~out.data[1].is_in_winch)]

UpdateWinchTracking(a, altitude, climb_rate) ==
    /\ WinchTrackingEffect(a, altitude, climb_rate)
    /\ UNCHANGED <<now, flightVars, netVars>>

\* cleanup_old_winch_data (winch_detector.py:98-110).
cleanup_old_winch_data ==
    [a \in {x \in DOMAIN winch_launch_data :
               ~(winch_launch_data[x].last_update < now - WINCH_IDLE)}
        |-> winch_launch_data[a]]

CleanupOldWinchData ==
    /\ winch_launch_data' = cleanup_old_winch_data
    /\ UNCHANGED <<now, flightVars, winch_call, winch_seen, winch_outcome, netVars>>

AdvanceWinch(d) ==
    /\ now + d <= MaxWinchTime
    /\ now' = now + d
    /\ UNCHANGED <<flightVars, winchVars, netVars>>

\* A silence longer than the idle timeout of the winch records.
WinchSilence ==
    /\ now <= MaxWinchTime
    /\ now' = now + WINCH_IDLE + 1
    /\ UNCHANGED <<flightVars, winchVars, netVars>>

\* The records are independent of each other: one aircraft is tracked.
WinchAircraft == {"G"}

NextWinch ==
    \/ \E a \in WinchAircraft, h \in WinchAltitudes \ {None} :
          StartWinchTracking(a, h[1])
    \/ \E a \in WinchAircraft, h \in WinchAltitudes, c \in ClimbRates :
          UpdateWinchTracking(a, h, c)
    \/ CleanupOldWinchData
    \/ \E d \in WinchSteps : AdvanceWinch(d)
    \/ WinchSilence

SpecWinch == Init /\ [][NextWinch]_vars

(***************************************************************************)
(* The variometer smoother (variometer_tracker.py).  Climb rates are in    *)
(* thousandths of a metre per second.                                      *)
(***************************************************************************)
VARIOMETER_MAXLEN == 60
VARIO_WINDOW_30 == 30
VARIO_WINDOW_60 == 60
VARIO_MIN_30 == 3
VARIO_MIN_60 == 5
VARIO_IDLE == 300

MaxVarioTime == 61
MaxSamples == 61
MaxSpaced == 5
VarioSteps == {30, 31}
VarioRates == {1000, 2000, 3004}
VarioAircraft == {"G"}

\* A history that keeps every sample.
AppendUnbounded(history, sample) == Append(history, sample)

\* deque(maxlen=60).append (variometer_tracker.py:16, 28): a full ring drops
\* its oldest sample.
RingAppend(history, sample) ==
    IF Len(history) >= VARIOMETER_MAXLEN
    THEN Append(Tail(history), sample) ELSE Append(history, sample)

\* A window that leaves out the sample exactly window seconds old.
InWindowStrict(history, window) ==
    LET inside == SelectSeq(history, LAMBDA x : x.time > now - window)
    IN [i \in DOMAIN inside |-> inside[i].rate]

\* The rates of the samples with timestamp >= now - window (lines 34-39).
InWindow(history, window) ==
    LET inside == SelectSeq(history, LAMBDA x : x.time >= now - window)
    IN [i \in DOMAIN inside |-> inside[i].rate]

\* The k-th smallest element of a non-empty sequence of numbers.
KthSmallest(data, k) ==
    CHOOSE v \in {data[i] : i \in DOMAIN data} :
        /\ Cardinality({i \in DOMAIN data : data[i] <= v}) >= k
        /\ Cardinality({i \in DOMAIN data : data[i] < v}) < k

\* statistics.median: the middle element, or the mean of the two middle ones.
Median(data) ==
    LET n == Len(data)
    IN IF n % 2 = 1 THEN KthSmallest(data, (n + 1) \div 2)
       ELSE (KthSmallest(data, n \div 2) + KthSmallest(data, n \div 2 + 1)) \div 2

\* round(x, 2) on thousandths, for x >= 0 that is not a tie.
Round2(x) == ((x + 5) \div 10) * 10

\* Lines 42-47: the median of a window that holds enough samples.
WindowAverage(data, minimum) ==
    IF Len(data) >= minimum THEN Some(Round2(Median(data))) ELSE None

\* update_variometer (variometer_tracker.py:18-50) on the ring after the
\* append.
update_variometer(history) ==
    LET thirty_sec_data == InWindow(history, VARIO_WINDOW_30)
        sixty_sec_data  == InWindow(history, VARIO_WINDOW_60)
    IN [climb_rate_30s_avg |-> WindowAverage(thirty_sec_data, VARIO_MIN_30),
        climb_rate_60s_avg |-> WindowAverage(sixty_sec_data, VARIO_MIN_60),
        data_points_30s    |-> Len(thirty_sec_data),
        data_points_60s    |-> Len(sixty_sec_data)]

\* Beyond the first MaxSpaced samples the model follows one burst: samples
\* of a single instant, with two climb rates, the weaker one first.
BurstRates == {1000, 3004}

Burst(all, climb_rate) ==
    /\ climb_rate \in BurstRates
    /\ \A i \in DOMAIN all : all[i].time = now /\ all[i].rate \in BurstRates
    /\ \A i \in DOMAIN all : i < Len(all) => all[i].rate <= all[i + 1].rate
    /\ all # <<>> => all[Len(all)].rate <= climb_rate

\* What one call of update_variometer leaves behind.
VariometerEffect(a, climb_rate) ==
    LET sample  == [time |-> now, rate |-> climb_rate]
        before  == IF a \in DOMAIN variometer_history
                   THEN variometer_history[a] ELSE <<>>
        history == RingAppend(before, sample)
    IN /\ variometer_history' =
             [x \in DOMAIN variometer_history \cup {a} |->
                 IF x = a THEN history ELSE variometer_history[x]]
       /\ variometer_all' = [variometer_all EXCEPT ![a] = Append(@, sample)]
       /\ variometer_call' = [id |-> a, result |-> Some(update_variometer(history))]

UpdateVariometer(a, climb_rate) ==
    /\ Len(variometer_all[a]) < MaxSamples
    /\ Len(variometer_all[a]) < MaxSpaced \/ Burst(variometer_all[a], climb_rate)
    /\ VariometerEffect(a, climb_rate)
    /\ UNCHANGED <<now, flightVars, winchVars, ognVars, serverVars, deliveryVars, threadVars, loop_state, adsbVars>>

\* cleanup_old_data (variometer_tracker.py:52-64).
cleanup_old_data ==
    [a \in {x \in DOMAIN variometer_history :
               ~(/\ variometer_history[x] # <<>>
                 /\ variometer_history[x][Len(variometer_history[x])].time
                       < now - VARIO_IDLE)}
        |-> variometer_history[a]]

CleanupOldData ==
    /\ variometer_history' = cleanup_old_data
    /\ UNCHANGED <<now, flightVars, winchVars, ognVars, serverVars, deliveryVars, threadVars, loop_state, adsbVars,
                   variometer_all, variometer_call>>

AdvanceVario(d) ==
    /\ now + d <= MaxVarioTime
    /\ \A a \in VarioAircraft : Len(variometer_all[a]) < MaxSpaced
    /\ now' = now + d
    /\ UNCHANGED <<flightVars, winchVars, netVars>>

\* A silence longer than the idle timeout of the histories.
VarioSilence ==
    /\ now <= MaxVarioTime
    /\ \A a \in VarioAircraft : Len(variometer_all[a]) < MaxSpaced
    /\ now' = now + VARIO_IDLE + 1
    /\ UNCHANGED <<flightVars, winchVars, netVars>>

NextVario ==
    \/ \E a \in VarioAircraft, climb_rate \in VarioRates :
          UpdateVariometer(a, climb_rate)
    \/ CleanupOldData
    \/ \E d \in VarioSteps : AdvanceVario(d)
    \/ VarioSilence

SpecVario == Init /\ [][NextVario]_vars

(***************************************************************************)
(* The websocket server (websocket_server.py): the subscribers and the     *)
(* broadcast loop.                                                         *)
(***************************************************************************)
\* start_websocket_server (websocket_server.py:226-244): installs the
\* subscriber-count callback, creates the broadcast task and starts serving.
StartWebsocketServer ==
    /\ queue_task = "not started"
    /\ get_connected_clients_count' = TRUE
    /\ queue_task' = "updates"
    /\ UNCHANGED <<now, flightVars, varioVars, winchVars, ognVars, adsbVars, deliveryVars, threadVars, loop_state, connected_clients>>

\* handle_client registers the subscriber (websocket_server.py:119).
Connect(c) ==
    /\ queue_task # "not started"
    /\ c \notin connected_clients
    /\ connected_clients' = connected_clients \cup {c}
    /\ UNCHANGED <<now, flightVars, varioVars, winchVars, ognVars, adsbVars, deliveryVars, threadVars, loop_state,
                   get_connected_clients_count, queue_task>>

\* handle_client unregisters the subscriber (websocket_server.py:177-181).
Disconnect(c) ==
    /\ c \in connected_clients
    /\ connected_clients' = connected_clients \ {c}
    /\ UNCHANGED <<now, flightVars, varioVars, winchVars, ognVars, adsbVars, deliveryVars, threadVars, loop_state,
                   get_connected_clients_count, queue_task>>

\* broadcast_aircraft_update / broadcast_aircraft_removed
\* (websocket_server.py:30-54): sent only when a subscriber is connected.
Broadcast(log, message) ==
    IF connected_clients # {} THEN Append(log, message) ELSE log

\* process_update_queues, one update (websocket_server.py:188-192).
BroadcastUpdate ==
    /\ queue_task = "updates"
    /\ aircraft_update_queue # <<>>
    /\ sent' = Broadcast(sent, Head(aircraft_update_queue))
    /\ aircraft_update_queue' = Tail(aircraft_update_queue)
    /\ UNCHANGED <<now, flightVars, varioVars, winchVars, serverVars, deliveryVars, threadVars, loop_state, adsbVars, aircraft_data,
                   aircraft_removal_queue, produced, beacon_pc, beacon_call, reaper_pc,
                   to_delete, reaper_wake>>

\* The update queue is empty: the loop of line 188 ends.
UpdatesDrained ==
    /\ queue_task = "updates"
    /\ aircraft_update_queue = <<>>
    /\ queue_task' = "removals"
    /\ UNCHANGED <<now, flightVars, varioVars, winchVars, ognVars, adsbVars, deliveryVars, threadVars, loop_state,
                   get_connected_clients_count, connected_clients>>

\* process_update_queues, one removal (websocket_server.py:198-202).
BroadcastRemoval ==
    /\ queue_task = "removals"
    /\ aircraft_removal_queue # <<>>
    /\ sent' = Broadcast(sent, Head(aircraft_removal_queue))
    /\ aircraft_removal_queue' = Tail(aircraft_removal_queue)
    /\ UNCHANGED <<now, flightVars, varioVars, winchVars, serverVars, deliveryVars, threadVars, loop_state, adsbVars, aircraft_data,
                   aircraft_update_queue, produced, beacon_pc, beacon_call, reaper_pc,
                   to_delete, reaper_wake>>

\* The removal queue is empty: the loop of line 198 ends.
RemovalsDrained ==
    /\ queue_task = "removals"
    /\ aircraft_removal_queue = <<>>
    /\ queue_task' = "adsb"
    /\ UNCHANGED <<now, flightVars, varioVars, winchVars, ognVars, adsbVars, deliveryVars, threadVars, loop_state,
                   get_connected_clients_count, connected_clients>>

\* process_update_queues, one secondary-source message
\* (websocket_server.py:208-217): it is taken off the queue and handed to
\* the subscribers connected at that moment.
BroadcastAdsb ==
    /\ queue_task = "adsb"
    /\ adsb_aircraft_queue # <<>>
    /\ adsb_aircraft_queue' = Tail(adsb_aircraft_queue)
    /\ UNCHANGED <<now, flightVars, varioVars, winchVars, ognVars, serverVars, deliveryVars, threadVars, loop_state,
                   adsb_aircraft_data, last_had_clients, last_cleanup_time,
                   adsb_tick>>

\* The secondary queue is empty: the loop sleeps 0.1 s and starts over
\* (websocket_server.py:208, 223).
AdsbDrained ==
    /\ queue_task = "adsb"
    /\ adsb_aircraft_queue = <<>>
    /\ queue_task' = "updates"
    /\ UNCHANGED <<now, flightVars, varioVars, winchVars, ognVars, adsbVars, deliveryVars, threadVars, loop_state,
                   get_connected_clients_count, connected_clients>>

(***************************************************************************)
(* The beacon thread and the reaper thread (ogn_client.py).  Here the      *)
(* beacon handler is its store into the Live State (lines 126-141) and its *)
(* enqueue (line 205), two steps between which the reaper thread can run;  *)
(* ProcessBeacon below is the handler as a whole, with its calls into the  *)
(* variometer (line 123), the flight state machine (line 149) and the      *)
(* winch detector (line 153).                                              *)
(***************************************************************************)
AIRCRAFT_REMOVAL_TIMEOUT == 600
REAPER_INTERVAL == 60

MaxOgnTime == 700
MaxMessages == 3
OgnSteps == {300, 301}

\* A queued message; seq is its position in the producers' enqueue order.
Message(type, a, n) == [type |-> type, id |-> a, seq |-> n]

\* process_beacon, lines 126-141: the entry is stored with last_seen = now.
BeaconStore(a) ==
    /\ beacon_pc = None
    /\ produced < MaxMessages
    /\ aircraft_data' =
          [x \in DOMAIN aircraft_data \cup {a} |->
              IF x = a THEN [id |-> a, last_seen |-> now] ELSE aircraft_data[x]]
    /\ beacon_pc' = Some(a)
    /\ UNCHANGED <<now, flightVars, varioVars, winchVars, serverVars, deliveryVars, threadVars, loop_state, adsbVars,
                   aircraft_update_queue, aircraft_removal_queue, produced, sent,
                   beacon_call, reaper_pc, to_delete, reaper_wake>>

\* process_beacon, line 205: aircraft_data[aircraft_id] is read again and
\* enqueued; when the reaper has deleted the entry the read raises KeyError,
\* which line 209 catches, and nothing is enqueued.
BeaconEnqueue ==
    /\ beacon_pc # None
    /\ LET a == beacon_pc[1]
       IN IF a \in DOMAIN aircraft_data
          THEN /\ aircraft_update_queue' =
                     Append(aircraft_update_queue,
                            Message("aircraft_update", a, produced + 1))
               /\ produced' = produced + 1
          ELSE UNCHANGED <<aircraft_update_queue, produced>>
    /\ beacon_pc' = None
    /\ UNCHANGED <<now, flightVars, varioVars, winchVars, serverVars, deliveryVars, threadVars, loop_state, adsbVars, aircraft_data,
                   aircraft_removal_queue, sent, beacon_call, reaper_pc, to_delete,
                   reaper_wake>>

\* cleanup_aircraft_data, lines 246-252: the scan.  The list is kept as a
\* set: its order is the dictionary's, which the model does not keep.
Stale(t) ==
    {a \in DOMAIN aircraft_data :
        t - aircraft_data[a].last_seen > AIRCRAFT_REMOVAL_TIMEOUT}

ReaperScan ==
    /\ reaper_pc = "scan"
    /\ now >= reaper_wake
    /\ produced + Cardinality(Stale(now)) <= MaxMessages
    /\ to_delete' = Stale(now)
    /\ reaper_pc' = "delete"
    /\ UNCHANGED <<now, flightVars, varioVars, winchVars, serverVars, deliveryVars, threadVars, loop_state, adsbVars, aircraft_data,
                   aircraft_update_queue, aircraft_removal_queue, produced, sent,
                   beacon_pc, beacon_call, reaper_wake>>

\* cleanup_aircraft_data, lines 254-258: one turn of the second loop.
ReaperDelete(a) ==
    /\ reaper_pc = "delete"
    /\ a \in to_delete
    /\ a \in DOMAIN aircraft_data
    /\ aircraft_data' = WithoutKey(aircraft_data, a)
    /\ aircraft_removal_queue' =
          Append(aircraft_removal_queue,
                 Message("aircraft_removed", a, produced + 1))
    /\ produced' = produced + 1
    /\ to_delete' = to_delete \ {a}
    /\ UNCHANGED <<now, flightVars, varioVars, winchVars, serverVars, deliveryVars, threadVars, loop_state, adsbVars,
                   aircraft_update_queue, sent, beacon_pc, beacon_call, reaper_pc,
                   reaper_wake>>

\* cleanup_aircraft_data, lines 260-264: the idle histories and records of
\* the variometer and the winch detector are cleaned and
\* the thread sleeps for a minute.
ReaperSleep ==
    /\ reaper_pc = "delete"
    /\ to_delete = {}
    /\ variometer_history' = cleanup_old_data
    /\ winch_launch_data' = cleanup_old_winch_data
    /\ reaper_pc' = "scan"
    /\ reaper_wake' = now + REAPER_INTERVAL
    /\ UNCHANGED <<now, flightVars, variometer_all, variometer_call, winch_call,
                   winch_seen, winch_outcome, serverVars, deliveryVars, threadVars, loop_state, adsbVars, aircraft_data, aircraft_update_queue, aircraft_removal_queue,
                   produced, sent, beacon_pc, beacon_call, to_delete>>

\* Minutes pass while no thread is in the middle of a pass: the beacon
\* handler has returned, the reaper sleeps, the broadcast loop is at its top.
AdvanceOgn(d) ==
    /\ now + d <= MaxOgnTime
    /\ beacon_pc = None
    /\ reaper_pc = "scan"
    /\ queue_task \in {"not started", "updates"}
    /\ now' = now + d
    /\ UNCHANGED <<flightVars, winchVars, netVars>>

NextOgn ==
    \/ StartWebsocketServer
    \/ \E c \in Clients : Connect(c)
    \/ \E c \in Clients : Disconnect(c)
    \/ \E a \in Aircraft : BeaconStore(a)
    \/ BeaconEnqueue
    \/ ReaperScan
    \/ \E a \in Aircraft : ReaperDelete(a)
    \/ ReaperSleep
    \/ BroadcastUpdate
    \/ UpdatesDrained
    \/ BroadcastRemoval
    \/ RemovalsDrained
    \/ AdsbDrained
    \/ \E d \in OgnSteps : AdvanceOgn(d)

SpecOgn == Init /\ [][NextOgn]_vars

(***************************************************************************)
(* The snapshot a new subscriber is sent (websocket_server.py:108-145).    *)
(* handle_client runs on the event loop: it registers the subscriber and   *)
(* sends the values of aircraft_data and of adsb_aircraft_data as they are *)
(* at that moment, while the beacon thread stands anywhere in its handler. *)
(* No poller runs here: the secondary-source table is empty and line 134   *)
(* sends nothing.                                                          *)
(***************************************************************************)
\* The message of lines 124-127.
Snapshot(table) == [type |-> "aircraft_data", data |-> table]

handle_client(c) ==
    /\ queue_task # "not started"
    /\ c \notin connected_clients
    /\ Len(sent) < MaxMessages
    /\ connected_clients' = connected_clients \cup {c}
    /\ sent' = IF DOMAIN aircraft_data # {}
               THEN Append(sent, Snapshot(aircraft_data)) ELSE sent
    /\ UNCHANGED <<now, flightVars, varioVars, winchVars, adsbVars, deliveryVars,
                   threadVars, loop_state, get_connected_clients_count,
                   queue_task, aircraft_data, aircraft_update_queue,
                   aircraft_removal_queue, produced, beacon_pc, beacon_call,
                   reaper_pc, to_delete, reaper_wake>>

NextSnapshot ==
    \/ StartWebsocketServer
    \/ \E c \in Clients : handle_client(c)
    \/ \E c \in Clients : Disconnect(c)
    \/ \E a \in Aircraft : BeaconStore(a)
    \/ BeaconEnqueue
    \/ BroadcastUpdate
    \/ UpdatesDrained
    \/ RemovalsDrained
    \/ AdsbDrained

SpecSnapshot == Init /\ [][NextSnapshot]_vars

(***************************************************************************)
(* The broadcast loop with its subscribers (websocket_server.py:30-81,     *)
(* 184-223): what each subscriber is sent.  The producers are their        *)
(* queue.put calls.                                                        *)
(***************************************************************************)
MaxQueued == 2

\* aircraft_update_queue.put (ogn_client.py:205).
PutUpdate ==
    /\ produced < MaxQueued
    /\ aircraft_update_queue' =
          Append(aircraft_update_queue, Message("aircraft_update", "G", produced + 1))
    /\ produced' = produced + 1
    /\ UNCHANGED <<now, flightVars, varioVars, winchVars, serverVars, adsbVars,
                   deliveryVars, threadVars, loop_state, aircraft_data, aircraft_removal_queue, sent,
                   beacon_pc, beacon_call, reaper_pc, to_delete, reaper_wake>>

\* aircraft_removal_queue.put (ogn_client.py:258).
PutRemoval ==
    /\ produced < MaxQueued
    /\ aircraft_removal_queue' =
          Append(aircraft_removal_queue, Message("aircraft_removed", "G", produced + 1))
    /\ produced' = produced + 1
    /\ UNCHANGED <<now, flightVars, varioVars, winchVars, serverVars, adsbVars,
                   deliveryVars, threadVars, loop_state, aircraft_data, aircraft_update_queue, sent,
                   beacon_pc, beacon_call, reaper_pc, to_delete, reaper_wake>>

\* adsb_aircraft_queue.put (adsb_client.py:259-262).
PutAdsb ==
    /\ produced < MaxQueued
    /\ adsb_aircraft_queue' =
          Append(adsb_aircraft_queue, Message("update", "adsb_A1", produced + 1))
    /\ produced' = produced + 1
    /\ UNCHANGED <<now, flightVars, varioVars, winchVars, serverVars,
                   deliveryVars, threadVars, loop_state, aircraft_data, aircraft_update_queue,
                   aircraft_removal_queue, sent, beacon_pc, beacon_call, reaper_pc,
                   to_delete, reaper_wake, adsb_aircraft_data, last_had_clients,
                   last_cleanup_time, adsb_tick>>

\* A get that leaves the message on the queue.
Peek(queue) == queue

\* Queue.get_nowait (websocket_server.py:190, 200, 210).
Dequeue(queue) == Tail(queue)

\* A gather that raises the first failure of a send.
GatherRaisesFirst(failed) == failed # {}

\* asyncio.gather(..., return_exceptions=True) (websocket_server.py:38-41):
\* the exception of a failed send is returned, never raised.
GatherRaises(failed) == FALSE

\* One broadcast_* call (websocket_server.py:30-81) when the message encodes
\* or not and the sends to the subscribers in failed fail:
\*   to      the subscribers the message is written to
\*   raised  whether the call raises
broadcast(encodes, failed) ==
    IF connected_clients = {} THEN [to |-> {}, raised |-> FALSE]
    ELSE IF ~encodes THEN [to |-> {}, raised |-> TRUE]
    ELSE [to     |-> connected_clients \ failed,
          raised |-> GatherRaises(failed)]

\* What taking one message off a queue and broadcasting it leaves behind.
DeliveryEffect(message, encodes, failed) ==
    LET out == broadcast(encodes, failed)
    IN /\ dequeued' = Append(dequeued,
                             [seq     |-> message.seq,
                              clients |-> connected_clients,
                              encodes |-> encodes,
                              failed  |-> failed,
                              raised  |-> out.raised])
       /\ delivered' = [c \in Clients |->
                           IF c \in out.to THEN Append(delivered[c], message.seq)
                           ELSE delivered[c]]

\* process_update_queues, one update (websocket_server.py:188-195); an
\* exception breaks out of the loop of line 188.
DeliverUpdate(encodes, failed) ==
    /\ queue_task = "updates"
    /\ aircraft_update_queue # <<>>
    /\ failed \subseteq connected_clients
    /\ DeliveryEffect(Head(aircraft_update_queue), encodes, failed)
    /\ aircraft_update_queue' = Dequeue(aircraft_update_queue)
    /\ queue_task' = IF broadcast(encodes, failed).raised THEN "removals" ELSE "updates"
    /\ UNCHANGED <<now, flightVars, varioVars, winchVars, adsbVars, aircraft_data,
                   aircraft_removal_queue, produced, sent, beacon_pc, beacon_call,
                   reaper_pc, to_delete, reaper_wake, loop_state, threadVars,
                   get_connected_clients_count, connected_clients>>

\* process_update_queues, one removal (websocket_server.py:198-205).
DeliverRemoval(encodes, failed) ==
    /\ queue_task = "removals"
    /\ aircraft_removal_queue # <<>>
    /\ failed \subseteq connected_clients
    /\ DeliveryEffect(Head(aircraft_removal_queue), encodes, failed)
    /\ aircraft_removal_queue' = Dequeue(aircraft_removal_queue)
    /\ queue_task' = IF broadcast(encodes, failed).raised THEN "adsb" ELSE "removals"
    /\ UNCHANGED <<now, flightVars, varioVars, winchVars, adsbVars, aircraft_data,
                   aircraft_update_queue, produced, sent, beacon_pc, beacon_call,
                   reaper_pc, to_delete, reaper_wake, loop_state, threadVars,
                   get_connected_clients_count, connected_clients>>

\* process_update_queues, one secondary-source message
\* (websocket_server.py:208-220); after the break the loop sleeps and starts
\* over.
DeliverAdsb(encodes, failed) ==
    /\ queue_task = "adsb"
    /\ adsb_aircraft_queue # <<>>
    /\ failed \subseteq connected_clients
    /\ DeliveryEffect(Head(adsb_aircraft_queue), encodes, failed)
    /\ adsb_aircraft_queue' = Dequeue(adsb_aircraft_queue)
    /\ queue_task' = IF broadcast(encodes, failed).raised THEN "updates" ELSE "adsb"
    /\ UNCHANGED <<now, flightVars, varioVars, winchVars, ognVars,
                   adsb_aircraft_data, last_had_clients, last_cleanup_time,
                   adsb_tick, loop_state, threadVars, get_connected_clients_count,
                   connected_clients>>

NextServer ==
    \/ StartWebsocketServer
    \/ \E c \in Clients : Connect(c)
    \/ \E c \in Clients : Disconnect(c)
    \/ PutUpdate
    \/ PutRemoval
    \/ PutAdsb
    \/ \E encodes \in BOOLEAN, failed \in SUBSET Clients : DeliverUpdate(encodes, failed)
    \/ UpdatesDrained
    \/ \E encodes \in BOOLEAN, failed \in SUBSET Clients : DeliverRemoval(encodes, failed)
    \/ RemovalsDrained
    \/ \E encodes \in BOOLEAN, failed \in SUBSET Clients : DeliverAdsb(encodes, failed)
    \/ AdsbDrained

SpecServer == Init /\ [][NextServer]_vars

(***************************************************************************)
(* The broadcast loop under a steady stream of beacons                     *)
(* (websocket_server.py:184-223; ogn_client.py:205).  The queues are       *)
(* unbounded queue.Queue objects; here at most MaxPending untracked        *)
(* updates wait at a time, beside the MaxQueued tracked messages.          *)
(***************************************************************************)
MaxPending == 1

\* aircraft_update_queue.put (ogn_client.py:205) of one more beacon, whose
\* message is not tracked.
KeepEnqueuing ==
    /\ Len(aircraft_update_queue) < MaxPending
    /\ aircraft_update_queue' =
          Append(aircraft_update_queue, Message("aircraft_update", "T", 0))
    /\ UNCHANGED <<now, flightVars, varioVars, winchVars, serverVars, adsbVars,
                   deliveryVars, threadVars, loop_state, aircraft_data,
                   aircraft_removal_queue, produced, sent, beacon_pc, beacon_call,
                   reaper_pc, to_delete, reaper_wake>>

\* process_update_queues (websocket_server.py:184-223): the next step of the
\* task, whichever queue it stands at.
process_update_queues ==
    \/ BroadcastUpdate
    \/ UpdatesDrained
    \/ BroadcastRemoval
    \/ RemovalsDrained
    \/ BroadcastAdsb
    \/ AdsbDrained

NextDrain ==
    \/ StartWebsocketServer
    \/ PutUpdate
    \/ PutRemoval
    \/ PutAdsb
    \/ KeepEnqueuing
    \/ process_update_queues

\* The event loop starts the task and keeps running it; the producers put
\* when they have something to put.
SpecDrain ==
    /\ Init
    /\ [][NextDrain]_vars
    /\ WF_vars(StartWebsocketServer)
    /\ WF_vars(process_update_queues)

(***************************************************************************)
(* process_beacon as a whole (ogn_client.py:34-212): the checks that       *)
(* discard a beacon, and for a beacon that passes them the calls into the  *)
(* variometer, the flight state machine and the winch detector, the store  *)
(* into the Live State and the enqueue.  A raw beacon is what the checks   *)
(* look at; its sample and climb rate are the payload.                     *)
(***************************************************************************)
AIRCRAFT_BEACON_TYPES == {"aprs_aircraft", "flarm", "tracker"}

MaxBeacons == 3
MaxBeaconTime == 20
BeaconSteps == {10}

\* The payloads: on the ground, airborne, and on the ground without altitude.
BeaconSamples ==
    {s \in Samples({0}) :
        \/ s.ground_speed = 10 /\ s.altitude \in {None, Some(10)}
        \/ s.ground_speed = 30 /\ s.altitude = Some(100)}

\* A beacon of aircraft a that passes every check.
ValidBeacon(a) ==
    [parses |-> TRUE, beacon_type |-> "aprs_aircraft", latitude |-> "number",
     longitude |-> "number", address |-> a, name |-> NoneVal]

\* The raw beacons: the valid ones, and the ones that differ from a valid
\* one in a single respect.  A coordinate is absent, a number or a text.
Beacons ==
    {ValidBeacon(a) : a \in Aircraft}
      \cup {[ValidBeacon("G") EXCEPT !.parses = FALSE]}
      \cup {[ValidBeacon("G") EXCEPT !.beacon_type = t] :
               t \in {"flarm", "tracker", "receiver", "Unknown"}}
      \cup {[ValidBeacon("G") EXCEPT !.latitude = v] : v \in {"absent", "text"}}
      \cup {[ValidBeacon("G") EXCEPT !.longitude = v] : v \in {"absent", "text"}}
      \cup {[ValidBeacon("G") EXCEPT !.address = NoneVal, !.name = n] :
               n \in {"G", NoneVal}}

\* Line 42.
IsAircraftBeacon(raw) == raw.beacon_type \in AIRCRAFT_BEACON_TYPES

\* Line 44.
HasPosition(raw) == raw.latitude # "absent" /\ raw.longitude # "absent"

\* Lines 48-54: the address, else the name, else none.
AircraftId(raw) == IF raw.address # NoneVal THEN raw.address ELSE raw.name

\* A check that lets every value pass.
AnyValue(x) == TRUE

\* isinstance(x, (int, float)) of line 71.
IsNumber(x) == x = "number"

\* The beacon reaches line 75: parse returned (line 37) and no check of
\* lines 42-73 returned early.
Accepted(raw) ==
    /\ raw.parses
    /\ IsAircraftBeacon(raw)
    /\ HasPosition(raw)
    /\ AircraftId(raw) # NoneVal
    /\ IsNumber(raw.latitude) /\ IsNumber(raw.longitude)

\* Lines 57-64; the identifiers of the model carry no FLR prefix.
store_in_mongodb(a) == a \in club_flarm_ids

\* Lines 75-205 for aircraft a.  The climb rate goes to the variometer in
\* thousandths.  A TypeError raised inside update_winch_tracking is caught at
\* line 209: the entry is stored, nothing is enqueued.
BeaconAccepted(a, s, climb_rate) ==
    LET raised == /\ store_in_mongodb(a)
                  /\ ~NotTracking(a)
                  /\ update_winch_tracking(a, s.altitude, climb_rate).raised
    IN /\ IF store_in_mongodb(a)
          THEN /\ VariometerEffect(a, climb_rate * 1000)
               /\ WinchTrackingEffect(a, s.altitude, climb_rate)
          ELSE UNCHANGED <<varioVars, winchVars>>
       /\ aircraft_data' =
             [x \in DOMAIN aircraft_data \cup {a} |->
                 IF x = a THEN [id |-> a, last_seen |-> now] ELSE aircraft_data[x]]
       /\ FlightEventsEffect(a, s)
       /\ IF raised
          THEN UNCHANGED <<aircraft_update_queue, produced>>
          ELSE /\ aircraft_update_queue' =
                     Append(aircraft_update_queue,
                            Message("aircraft_update", a, produced + 1))
               /\ produced' = produced + 1

ProcessBeacon(raw, s, climb_rate) ==
    /\ beacon_call.n < MaxBeacons
    /\ beacon_call' = [n |-> beacon_call.n + 1, raw |-> raw]
    /\ IF Accepted(raw)
       THEN BeaconAccepted(AircraftId(raw), s, climb_rate)
       ELSE UNCHANGED <<aircraft_flight_states, recent_takeoffs, logged,
                        takeoff_events, event_times, varioVars, winchVars,
                        aircraft_data, aircraft_update_queue, produced>>
    /\ UNCHANGED <<now, airfields, registered_homefields, aircraft_removal_queue,
                   sent, beacon_pc, reaper_pc, to_delete, reaper_wake,
                   serverVars, deliveryVars, threadVars, loop_state, adsbVars>>

AdvanceBeacon(d) ==
    /\ now + d <= MaxBeaconTime
    /\ now' = now + d
    /\ UNCHANGED <<flightVars, winchVars, netVars>>

NextBeacon ==
    \/ \E raw \in Beacons, s \in BeaconSamples, climb_rate \in ClimbRates :
          ProcessBeacon(raw, s, climb_rate)
    \/ \E d \in BeaconSteps : AdvanceBeacon(d)

SpecBeacon == Init /\ [][NextBeacon]_vars

(***************************************************************************)
(* The cache refresh thread against the beacon thread (db.py:423-483,      *)
(* 660-684; ogn_client.py:56-64).  update_club_planes_cache empties the    *)
(* set the beacon thread tests (line 471) and fills it in the statement    *)
(* that follows (line 472); the beacon thread can run between the two.     *)
(***************************************************************************)
\* What planes_collection.find answers (db.py:439-464): the FLARM ids of the
\* club's planes and of its guests of the last three days.
ClubPlanes == {{"G"}, {"G", "T"}}

\* update_club_planes_cache, lines 429-471: the planes are read into
\* new_flarm_ids and the cache is cleared.
CacheClear(new_flarm_ids) ==
    /\ cache_refresh = None
    /\ cache_refresh' = Some([club_flarm_ids |-> club_flarm_ids,
                              new_flarm_ids  |-> new_flarm_ids])
    /\ club_flarm_ids' = {}
    /\ UNCHANGED <<now, flightVars, winchVars, ognVars, serverVars, adsbVars,
                   varioVars, deliveryVars, poller_pc, view, cleanup_filtered,
                   loop_state>>

\* update_club_planes_cache, line 472.
CacheUpdate ==
    /\ cache_refresh # None
    /\ club_flarm_ids' = cache_refresh[1].new_flarm_ids
    /\ cache_refresh' = None
    /\ UNCHANGED <<now, flightVars, winchVars, ognVars, serverVars, adsbVars,
                   varioVars, deliveryVars, poller_pc, view, cleanup_filtered,
                   loop_state>>

\* Beacons of the two aircraft arrive while the cache is refreshed.
NextRefresh ==
    \/ \E a \in Aircraft, s \in BeaconSamples :
          ProcessBeacon(ValidBeacon(a), s, 4)
    \/ \E new_flarm_ids \in ClubPlanes : CacheClear(new_flarm_ids)
    \/ CacheUpdate

SpecRefresh == Init /\ [][NextRefresh]_vars

(***************************************************************************)
(* The presence-gated poller (adsb_client.py).  One tick is one turn of    *)
(* the loop of fetch_and_process_data: only the poller thread writes the   *)
(* secondary-source Live State, and it reads the subscriber count once.    *)
(***************************************************************************)
ADSB_UPDATE_INTERVAL == 5
ADSB_MAX_ALTITUDE == 5000
ADSB_CLEANUP_INTERVAL == 60

MaxTicks == 3
MaxAdsbQueue == 2
MaxFetched == 2
Latencies == {0, 600}

\* The aircraft the secondary source reports.
RawAircraft ==
    { [hex |-> "a1", alt_baro |-> None,       flight |-> ""],
      [hex |-> "a1", alt_baro |-> Some(5000), flight |-> "TWR "],
      [hex |-> "b2", alt_baro |-> Some(5000), flight |-> "SAS1 "],
      [hex |-> "b2", alt_baro |-> Some(5001), flight |-> ""],
      [hex |-> "",   alt_baro |-> Some(5000), flight |-> ""] }

RECURSIVE ListsUpTo(_)
ListsUpTo(n) ==
    IF n = 0 THEN {<<>>}
    ELSE ListsUpTo(n - 1) \cup
         {Append(l, r) : l \in {x \in ListsUpTo(n - 1) : Len(x) = n - 1},
                         r \in RawAircraft}

\* fetch_aircraft_in_area (adsb_client.py:44-87): None on an error, else the
\* list the service answered.
FetchResults == {None} \cup {Some(l) : l \in ListsUpTo(MaxFetched)}

\* str.upper and str.strip on the strings above.
Upper(h) == CASE h = "a1" -> "A1" [] h = "b2" -> "B2" [] OTHER -> h

Strip(f) == CASE f = "TWR " -> "TWR" [] f = "SAS1 " -> "SAS1" [] OTHER -> f

\* f"adsb_{hex}" (adsb_client.py:147-148); NoneVal when the hex is empty.
AdsbId(hex) ==
    CASE hex = "A1" -> "adsb_A1" [] hex = "B2" -> "adsb_B2" [] OTHER -> NoneVal

\* normalize_aircraft_data (adsb_client.py:89-157), stamped at time t.
normalize_aircraft_data(aircraft, t) ==
    [source      |-> "adsb",
     timestamp   |-> t,
     hex         |-> Upper(aircraft.hex),
     flight      |-> Strip(aircraft.flight),
     altitude    |-> aircraft.alt_baro,
     aircraft_id |-> AdsbId(Upper(aircraft.hex))]

\* A poller without the callsign filter of lines 247-250.
KeptWithTower(normalized) ==
    /\ normalized.aircraft_id # NoneVal
    /\ ~(normalized.altitude # None /\ normalized.altitude[1] > ADSB_MAX_ALTITUDE)

\* The filters of lines 235-250.
Kept(normalized) ==
    /\ normalized.aircraft_id # NoneVal
    /\ ~(normalized.altitude # None /\ normalized.altitude[1] > ADSB_MAX_ALTITUDE)
    /\ normalized.flight # "TWR"

\* current_aircraft[aircraft_id] = normalized (line 252): a key keeps its
\* first position and takes the last value.
PutCurrent(current, normalized) ==
    IF \E i \in DOMAIN current : current[i].aircraft_id = normalized.aircraft_id
    THEN [i \in DOMAIN current |->
            IF current[i].aircraft_id = normalized.aircraft_id
            THEN normalized ELSE current[i]]
    ELSE Append(current, normalized)

RECURSIVE CurrentAircraft(_, _, _)
CurrentAircraft(aircraft_list, t, current) ==
    IF aircraft_list = <<>> THEN current
    ELSE LET normalized == normalize_aircraft_data(Head(aircraft_list), t)
         IN CurrentAircraft(Tail(aircraft_list), t,
                            IF Kept(normalized) THEN PutCurrent(current, normalized)
                            ELSE current)

Ids(current) == {current[i].aircraft_id : i \in DOMAIN current}

\* The sequences that list every element of S once.
Orderings(S) ==
    {s \in [1..Cardinality(S) -> S] : \A x \in S : \E i \in DOMAIN s : s[i] = x}

RemoveMessage(table, aircraft_id) ==
    [type |-> "remove", aircraft_id |-> aircraft_id, hex |-> table[aircraft_id].hex]

UpdateMessage(normalized) ==
    [type |-> "update", aircraft_id |-> normalized.aircraft_id,
     hex |-> normalized.hex]

RemoveMessages(table, order) ==
    [i \in DOMAIN order |-> RemoveMessage(table, order[i])]

\* A poller that announces the changed aircraft but not the new ones.
ChangedOnly(table, current) ==
    SelectSeq(current, LAMBDA n : /\ n.aircraft_id \in DOMAIN table
                                  /\ table[n.aircraft_id] # n)

\* Lines 255-262: the new or changed aircraft, in the order of the fetch.
Changed(table, current) ==
    SelectSeq(current, LAMBDA n : \/ n.aircraft_id \notin DOMAIN table
                                  \/ table[n.aircraft_id] # n)

UpdateMessages(changed) == [i \in DOMAIN changed |-> UpdateMessage(changed[i])]

\* A table that takes the fetched aircraft and keeps the others.
FetchedMerged(table, current) ==
    [x \in DOMAIN table \cup Ids(current) |->
        IF x \in Ids(current)
        THEN LET i == CHOOSE k \in DOMAIN current : current[k].aircraft_id = x
             IN current[i]
        ELSE table[x]]

\* The table after lines 255-271: the fetched aircraft, and nothing else.
Fetched(table, current) ==
    [x \in Ids(current) |->
        LET i == CHOOSE k \in DOMAIN current : current[k].aircraft_id = x
        IN current[i]]

\* cleanup_old_aircraft (adsb_client.py:174-195): the entries to remove.
Old(table, t) ==
    {x \in DOMAIN table : t - table[x].timestamp > AIRCRAFT_REMOVAL_TIMEOUT}

\* A poller that takes every tick for one with subscribers.
HasClientsAlways == TRUE

\* Lines 207-210: has_clients, FALSE while no callback is installed.
HasClients == get_connected_clients_count /\ connected_clients # {}

\* A poller that keeps its table when the subscribers are gone.
NeverPausesFetching(has_clients) == FALSE

\* Lines 214-216: the subscribers are gone since the previous tick.
PausesFetching(has_clients) ==
    get_connected_clients_count /\ ~has_clients /\ last_had_clients

\* The identifiers of the fetched aircraft that have one and pass the
\* altitude filter and the TWR filter, read off the answer of the service.
PassingIds(aircraft_list) ==
    {AdsbId(Upper(aircraft_list[i].hex)) :
        i \in {k \in DOMAIN aircraft_list :
                  /\ Upper(aircraft_list[k].hex) \in {"A1", "B2"}
                  /\ \/ aircraft_list[k].alt_baro = None
                     \/ aircraft_list[k].alt_baro[1] <= ADSB_MAX_ALTITUDE
                  /\ Strip(aircraft_list[k].flight) # "TWR"}}

\* One turn of the loop of fetch_and_process_data (adsb_client.py:204-287).
\* The fetch answers result after latency seconds; adsb_tick keeps which
\* identifiers of the answer pass the filters.
AdsbTick(result, latency) ==
    LET has_clients == HasClients
        clear   == PausesFetching(has_clients)
        t       == now + latency
        fetched == has_clients /\ result # None
        current == IF fetched THEN CurrentAircraft(result[1], t, <<>>) ELSE <<>>
        changed == IF fetched THEN Changed(adsb_aircraft_data, current) ELSE <<>>
        gone    == IF fetched THEN DOMAIN adsb_aircraft_data \ Ids(current) ELSE {}
        table1  == IF clear THEN [x \in {} |-> None]
                   ELSE IF fetched THEN Fetched(adsb_aircraft_data, current)
                   ELSE adsb_aircraft_data
        sweep   == has_clients /\ t - last_cleanup_time >= ADSB_CLEANUP_INTERVAL
        old     == IF sweep THEN Old(table1, t) ELSE {}
    IN /\ adsb_tick.n < MaxTicks
       /\ poller_pc = "idle"
       /\ has_clients \/ (result = None /\ latency = 0)
       /\ \E cleared \in Orderings(IF clear THEN DOMAIN adsb_aircraft_data ELSE {}),
             removed \in Orderings(gone), swept \in Orderings(old) :
             adsb_aircraft_queue' =
                adsb_aircraft_queue
                   \o RemoveMessages(adsb_aircraft_data, cleared)
                   \o UpdateMessages(changed)
                   \o RemoveMessages(adsb_aircraft_data, removed)
                   \o RemoveMessages(table1, swept)
       /\ Len(adsb_aircraft_queue') <= MaxAdsbQueue
       /\ adsb_aircraft_data' = [x \in DOMAIN table1 \ old |-> table1[x]]
       /\ last_had_clients' = has_clients
       /\ last_cleanup_time' = IF sweep THEN t ELSE last_cleanup_time
       /\ adsb_tick' = [n |-> adsb_tick.n + 1, has_clients |-> has_clients, cleared |-> clear,
                        fetched |-> has_clients,
                        passing |-> IF fetched THEN Some(PassingIds(result[1]))
                                    ELSE None]
       /\ now' = now + latency + ADSB_UPDATE_INTERVAL
       /\ UNCHANGED <<flightVars, varioVars, winchVars, ognVars, serverVars, deliveryVars, threadVars, loop_state>>

NextAdsb ==
    \/ StartWebsocketServer
    \/ \E c \in Clients : Connect(c)
    \/ \E c \in Clients : Disconnect(c)
    \/ \E result \in FetchResults, latency \in Latencies : AdsbTick(result, latency)
    \/ UpdatesDrained
    \/ RemovalsDrained
    \/ BroadcastAdsb
    \/ AdsbDrained

SpecAdsb == Init /\ [][NextAdsb]_vars

(***************************************************************************)
(* The poller thread against the event loop (adsb_client.py:159-172,       *)
(* 204-218; websocket_server.py:108-145, 207-220).  clear_aircraft_data    *)
(* enqueues its removals (lines 164-168) and clears the table afterwards   *)
(* (line 171); the poller is a thread, so the event loop can broadcast and *)
(* accept a subscriber between the two.                                    *)
(***************************************************************************)
\* The picture of a secondary-source table that its messages carry: the hex
\* code under each aircraft_id.
Picture(table) == [x \in DOMAIN table |-> table[x].hex]

\* A subscriber applying one secondary-source message to its picture.
Applied(picture, message) ==
    IF message.type = "update"
    THEN [x \in DOMAIN picture \cup {message.aircraft_id} |->
             IF x = message.aircraft_id THEN message.hex ELSE picture[x]]
    ELSE [x \in DOMAIN picture \ {message.aircraft_id} |-> picture[x]]

\* handle_client up to its heartbeat (websocket_server.py:108-145): the
\* subscriber is registered (line 119) and sent the two tables as they are
\* (lines 123-140); its picture starts from the secondary one.
ConnectView(c) ==
    /\ queue_task # "not started"
    /\ c \notin connected_clients
    /\ connected_clients' = connected_clients \cup {c}
    /\ view' = [view EXCEPT ![c] = Some(Picture(adsb_aircraft_data))]
    /\ UNCHANGED <<now, flightVars, varioVars, winchVars, ognVars, adsbVars,
                   deliveryVars, poller_pc, cleanup_filtered, loop_state, club_flarm_ids, cache_refresh,
                   get_connected_clients_count, queue_task>>

\* handle_client unregisters the subscriber (websocket_server.py:177-181),
\* whose picture ends.
DisconnectView(c) ==
    /\ c \in connected_clients
    /\ connected_clients' = connected_clients \ {c}
    /\ view' = [view EXCEPT ![c] = None]
    /\ UNCHANGED <<now, flightVars, varioVars, winchVars, ognVars, adsbVars,
                   deliveryVars, poller_pc, cleanup_filtered, loop_state, club_flarm_ids, cache_refresh,
                   get_connected_clients_count, queue_task>>

\* process_update_queues, one secondary-source message
\* (websocket_server.py:208-217): it is taken off the queue and sent to the
\* subscribers connected at that moment, who apply it.
BroadcastAdsbView ==
    /\ queue_task = "adsb"
    /\ adsb_aircraft_queue # <<>>
    /\ adsb_aircraft_queue' = Tail(adsb_aircraft_queue)
    /\ view' = [c \in Clients |->
                   IF c \in connected_clients
                   THEN Some(Applied(view[c][1], Head(adsb_aircraft_queue)))
                   ELSE view[c]]
    /\ UNCHANGED <<now, flightVars, varioVars, winchVars, ognVars, serverVars,
                   deliveryVars, poller_pc, cleanup_filtered, loop_state, club_flarm_ids, cache_refresh,
                   adsb_aircraft_data, last_had_clients, last_cleanup_time,
                   adsb_tick>>

\* Lines 207-216 and 164-168: the subscribers are gone since the previous
\* tick, and a removal is enqueued for every entry of the table.
ClearPut ==
    /\ adsb_tick.n < MaxTicks
    /\ poller_pc = "idle"
    /\ PausesFetching(HasClients)
    /\ \E cleared \in Orderings(DOMAIN adsb_aircraft_data) :
          adsb_aircraft_queue' =
             adsb_aircraft_queue \o RemoveMessages(adsb_aircraft_data, cleared)
    /\ Len(adsb_aircraft_queue') <= MaxAdsbQueue
    /\ poller_pc' = "clearing"
    /\ UNCHANGED <<now, flightVars, varioVars, winchVars, ognVars, serverVars,
                   deliveryVars, loop_state, club_flarm_ids, cache_refresh, view, cleanup_filtered,
                   adsb_aircraft_data, last_had_clients, last_cleanup_time,
                   adsb_tick>>

\* Line 171 and the rest of that tick (lines 218, 280-283): the table is
\* cleared, nothing is fetched and the poller sleeps.
ClearTable ==
    /\ poller_pc = "clearing"
    /\ adsb_aircraft_data' = [x \in {} |-> None]
    /\ last_had_clients' = FALSE
    /\ adsb_tick' = [n |-> adsb_tick.n + 1, has_clients |-> FALSE,
                     cleared |-> TRUE, fetched |-> FALSE, passing |-> None]
    /\ now' = now + ADSB_UPDATE_INTERVAL
    /\ poller_pc' = "idle"
    /\ UNCHANGED <<flightVars, varioVars, winchVars, ognVars, serverVars,
                   deliveryVars, loop_state, club_flarm_ids, cache_refresh, view, cleanup_filtered,
                   adsb_aircraft_queue, last_cleanup_time>>

\* The fetches answer at once.
NextView ==
    \/ StartWebsocketServer
    \/ \E c \in Clients : ConnectView(c)
    \/ \E c \in Clients : DisconnectView(c)
    \/ \E result \in FetchResults :
          ~PausesFetching(HasClients) /\ AdsbTick(result, 0)
    \/ ClearPut
    \/ ClearTable
    \/ UpdatesDrained
    \/ RemovalsDrained
    \/ BroadcastAdsbView
    \/ AdsbDrained

SpecView == Init /\ [][NextView]_vars

(***************************************************************************)
(* The five loops and their exception handlers (ogn_client.py:207-223,     *)
(* 244-267; adsb_client.py:204-287; websocket_server.py:186-223).  A tick  *)
(* is one beacon, one poller pass, one reaper pass, one flight-state       *)
(* cleanup or one queued message; it ends normally or raises ParseError    *)
(* (ogn.parser.parse only) or another Exception.                           *)
(***************************************************************************)
MaxLoopTicks == 2

Raisable == {NoneVal, "ParseError", "Exception"}

\* A handler for ParseError alone.
CatchesParseErrorOnly(exc) == exc = "ParseError"

\* `except Exception` (ogn_client.py:209, 221, 265; adsb_client.py:285;
\* websocket_server.py:193, 203, 218): every exception of a tick.
CatchesException(exc) == TRUE

\* No handler around the passes of the threads other than the beacon thread.
HandlerInBeaconOnly(l, exc) == l = "beacon"

\* The handlers around a tick of the loop: process_beacon has
\* `except ParseError` before `except Exception`, the others the latter only.
Catches(l, exc) ==
    IF l = "beacon" THEN exc = "ParseError" \/ CatchesException(exc)
    ELSE CatchesException(exc)

\* The sleep that follows the tick, in seconds: the poller sleeps 5 s and the
\* reaper 60 s either way (adsb_client.py:283, 287; ogn_client.py:264, 267),
\* the flight-state cleanup 300 s, or 60 s after an exception
\* (ogn_client.py:220, 223); a beacon and a queued message are followed by
\* the next one.
SleepAfter(l, exc) ==
    CASE l = "poller"  -> ADSB_UPDATE_INTERVAL
      [] l = "reaper"  -> REAPER_INTERVAL
      [] l = "cleanup" -> IF exc = NoneVal THEN 300 ELSE 60
      [] OTHER         -> 0

\* One tick of loop l that ends with exc: an exception no handler catches
\* leaves the loop's function and ends the loop.
LoopTick(l, exc) ==
    /\ loop_state[l].running
    /\ loop_state[l].ticks < MaxLoopTicks
    /\ loop_state' =
          [loop_state EXCEPT ![l] =
              [running |-> exc = NoneVal \/ Catches(l, exc),
               ticks   |-> @.ticks + 1,
               caught  |-> IF exc # NoneVal /\ Catches(l, exc)
                           THEN @.caught + 1 ELSE @.caught,
               last    |-> exc,
               sleep   |-> SleepAfter(l, exc)]]
    /\ UNCHANGED <<now, flightVars, winchVars, ognVars, serverVars, adsbVars,
                   varioVars, deliveryVars, threadVars>>

\* process_beacon (ogn_client.py:34-212) under client.run.
BeaconLoop(exc) == LoopTick("beacon", exc)

\* fetch_and_process_data (adsb_client.py:204-287).
PollerLoop(exc) == exc # "ParseError" /\ LoopTick("poller", exc)

\* cleanup_aircraft_data (ogn_client.py:244-267).
ReaperLoop(exc) == exc # "ParseError" /\ LoopTick("reaper", exc)

\* periodically_cleanup_state (ogn_client.py:217-223).
StateCleanupLoop(exc) == exc # "ParseError" /\ LoopTick("cleanup", exc)

\* process_update_queues (websocket_server.py:186-223): the exception breaks
\* out of the inner loop, the outer one goes on.
QueueLoop(exc) == exc # "ParseError" /\ LoopTick("broadcast", exc)

NextLoops ==
    \/ \E exc \in Raisable : BeaconLoop(exc)
    \/ \E exc \in Raisable : PollerLoop(exc)
    \/ \E exc \in Raisable : ReaperLoop(exc)
    \/ \E exc \in Raisable : StateCleanupLoop(exc)
    \/ \E exc \in Raisable : QueueLoop(exc)

SpecLoops == Init /\ [][NextLoops]_vars

(***************************************************************************)
(* The server as main() starts it (main.py:37-67): init_database loads the *)
(* caches of db.py, then the threads and the websocket server start.       *)
(* initialize_events_file is called by nothing, so airfields keeps the     *)
(* empty list of flight_events.py:64.                                      *)
(***************************************************************************)
\* main (main.py:37-67) with init_database succeeding (db.py:357-420): the
\* homefield cache is filled from the clubs collection, the subscriber-count
\* callback is installed and the broadcast task is created.  When
\* init_database fails main returns and nothing starts.
Main(homefields) ==
    /\ queue_task = "not started"
    /\ registered_homefields' = homefields
    /\ get_connected_clients_count' = TRUE
    /\ queue_task' = "updates"
    /\ UNCHANGED <<now, aircraft_flight_states, recent_takeoffs, airfields,
                   logged, takeoff_events, event_times, winchVars, ognVars,
                   adsbVars, varioVars, deliveryVars, threadVars, loop_state,
                   connected_clients>>

\* The server runs: main() has started the threads.
Started == queue_task # "not started"

\* A beacon of the beacon thread reaching process_flight_events.
MainBeacon(a, s) == Started /\ ProcessFlightEvents(a, s)

\* cache_refresh_worker (db.py:665-678).
MainRefresh == Started /\ UpdateRegisteredHomefieldsCache

\* periodically_cleanup_state (ogn_client.py:214-223).
MainCleanup == Started /\ CleanupState

NextMain ==
    \/ \E homefields \in SUBSET {"EKAA"} : Main(homefields)
    \/ \E s \in Samples(AwayPositions) : MainBeacon("G", s)
    \/ MainRefresh
    \/ MainCleanup
    \/ \E d \in Steps : Started /\ Advance(d)

SpecMain == Init /\ [][NextMain]_vars

(***************************************************************************)
(* The reaper's scan against the beacon thread (ogn_client.py:240-267).    *)
(* The first loop of a pass iterates over aircraft_data.items() (lines     *)
(* 249-252) while the beacon thread stores entries (lines 126-141): a      *)
(* store under a new key changes the size of the dict, the iterator's next *)
(* step raises RuntimeError, `except Exception` (line 265) catches it and  *)
(* the thread sleeps 60 s before its next pass (line 267).  The glider     *)
(* sends beacons at time 0 only; the tow plane sends them at any time.     *)
(* The clock stops at MaxOgnTime, where the reaper's sleeps end at once.   *)
(***************************************************************************)
Capped(t) == IF t > MaxOgnTime THEN MaxOgnTime ELSE t

\* process_beacon for a beacon of a, lines 126-141 and 205: the entry is
\* stored and put on the update queue.
StoreBeacon(a) ==
    /\ beacon_pc = None
    /\ Len(aircraft_update_queue) < MaxPending
    /\ aircraft_data' =
          [x \in DOMAIN aircraft_data \cup {a} |->
              IF x = a THEN [id |-> a, last_seen |-> now] ELSE aircraft_data[x]]
    /\ aircraft_update_queue' =
          Append(aircraft_update_queue, Message("aircraft_update", a, 0))
    /\ reaper_pc' = IF reaper_pc = "scanning" /\ a \notin DOMAIN aircraft_data
                    THEN "broken" ELSE reaper_pc
    /\ UNCHANGED <<now, flightVars, varioVars, winchVars, serverVars, adsbVars,
                   deliveryVars, threadVars, loop_state, aircraft_removal_queue,
                   produced, sent, beacon_pc, beacon_call, to_delete,
                   reaper_wake>>

\* cleanup_aircraft_data, lines 246-249: the sleep is over, the pass takes
\* the time and creates the iterator.
ScanBegins ==
    /\ reaper_pc = "scan"
    /\ now >= Capped(reaper_wake)
    /\ reaper_pc' = "scanning"
    /\ UNCHANGED <<now, flightVars, varioVars, winchVars, serverVars, adsbVars,
                   deliveryVars, threadVars, loop_state, aircraft_data,
                   aircraft_update_queue, aircraft_removal_queue, produced, sent,
                   beacon_pc, beacon_call, to_delete, reaper_wake>>

\* cleanup_aircraft_data, lines 249-252: the iteration reaches its end over
\* a dict whose size did not change.
ScanCompletes ==
    /\ reaper_pc = "scanning"
    /\ to_delete' = Stale(now)
    /\ reaper_pc' = "delete"
    /\ UNCHANGED <<now, flightVars, varioVars, winchVars, serverVars, adsbVars,
                   deliveryVars, threadVars, loop_state, aircraft_data,
                   aircraft_update_queue, aircraft_removal_queue, produced, sent,
                   beacon_pc, beacon_call, reaper_wake>>

\* cleanup_aircraft_data, lines 249 and 265-267: the size of the dict
\* changed during the iteration, RuntimeError is raised; caught, it is
\* followed by the sleep, and uncaught it ends the thread.
ScanRaises ==
    /\ reaper_pc = "broken"
    /\ reaper_pc' = IF Catches("reaper", "Exception") THEN "scan" ELSE "dead"
    /\ reaper_wake' = now + SleepAfter("reaper", "Exception")
    /\ loop_state' =
          [loop_state EXCEPT !["reaper"] =
              [@ EXCEPT !.running = Catches("reaper", "Exception"),
                        !.caught = IF @ < MaxLoopTicks THEN @ + 1 ELSE @,
                        !.last = "Exception",
                        !.sleep = SleepAfter("reaper", "Exception")]]
    /\ UNCHANGED <<now, flightVars, varioVars, winchVars, serverVars, adsbVars,
                   deliveryVars, threadVars, aircraft_data,
                   aircraft_update_queue, aircraft_removal_queue, produced, sent,
                   beacon_pc, beacon_call, to_delete>>

\* cleanup_aircraft_data (ogn_client.py:240-267): the next step of the
\* thread.
cleanup_aircraft_data ==
    \/ ScanBegins
    \/ ScanCompletes
    \/ ScanRaises
    \/ \E a \in Aircraft : ReaperDelete(a)
    \/ ReaperSleep

\* Minutes pass while the beacon handler has returned and the reaper sleeps.
TimePasses(d) ==
    /\ now < MaxOgnTime
    /\ beacon_pc = None
    /\ reaper_pc = "scan"
    /\ now' = Capped(now + d)
    /\ UNCHANGED <<flightVars, winchVars, netVars>>

\* process_update_queues (websocket_server.py:184-223) with nothing on the
\* secondary queue: the next step of the task.
BroadcastPrimary ==
    \/ BroadcastUpdate
    \/ UpdatesDrained
    \/ BroadcastRemoval
    \/ RemovalsDrained
    \/ AdsbDrained

NextReap ==
    \/ StartWebsocketServer
    \/ now = 0 /\ StoreBeacon("G")
    \/ StoreBeacon("T")
    \/ cleanup_aircraft_data
    \/ BroadcastPrimary
    \/ \E d \in OgnSteps : TimePasses(d)

\* The threads are scheduled fairly and time passes.
SpecReap ==
    /\ Init
    /\ [][NextReap]_vars
    /\ WF_vars(StartWebsocketServer)
    /\ WF_vars(BroadcastPrimary)
    /\ WF_vars(cleanup_aircraft_data)
    /\ WF_vars(\E d \in OgnSteps : TimePasses(d))

(***************************************************************************)
(* The claims about the flight state machine.                              *)
(***************************************************************************)
\* The step is the call process_flight_events(a, s).
Call(a, s) ==
    /\ logged'.id = a
    /\ logged'.ground_speed = s.ground_speed
    /\ logged'.altitude = s.altitude
    /\ ProcessFlightEvents(a, s)

Fired(event_type) == logged'.event # None /\ logged'.event[1].type = event_type

\* C1: for an aircraft whose Flight State is still unknown (no entry, or an
\* entry whose airborne flag is None), a call of process_flight_events logs
\* no event, leaves the event fields, the Recent Takeoff list and the
\* launch label alone, and sets the flag from the sample when the sample
\* carries an altitude.
C1_FirstSampleSilent ==
    [][\A a \in Aircraft : \A s \in Samples(FieldPositions) :
          (StateOf(a).is_airborne = NoneVal /\ Call(a, s)) =>
             /\ logged'.event = None
             /\ event_times' = event_times
             /\ takeoff_events' = takeoff_events
             /\ recent_takeoffs' = recent_takeoffs
             /\ aircraft_flight_states'[a].last_event = NoneVal
             /\ aircraft_flight_states'[a].last_event_time = None
             /\ aircraft_flight_states'[a].takeoff_time = None
             /\ aircraft_flight_states'[a].start_type = NoneVal
             /\ s.altitude # None =>
                   aircraft_flight_states'[a].is_airborne =
                      IF s.ground_speed >= 30 /\ s.altitude[1] >= 20
                      THEN "True" ELSE "False"]_vars

\* C1 witness: the glider was first seen airborne and no event was logged.
C1_Witness ==
    /\ "G" \in DOMAIN aircraft_flight_states
    /\ aircraft_flight_states["G"].is_airborne = "True"
    /\ aircraft_flight_states["G"].last_event = NoneVal
    /\ logged.id = "G"
    /\ logged.event = None
    /\ event_times["G"] = None

\* C2: when a glider g and a tow plane t have taken off within 5 s and
\* 0.3 km of each other, g's takeoff event is labeled tow and paired with t,
\* and t's takeoff event is labeled tow_plane and paired with g.
C2_BothSidesLabeled ==
    \A g, t \in Aircraft :
       (/\ takeoff_events[g] # None
        /\ takeoff_events[t] # None
        /\ is_glider(AircraftType(g), AircraftModel(g))
        /\ is_tow_plane(AircraftType(t), AircraftModel(t))
        /\ Abs(takeoff_events[t][1].time - takeoff_events[g][1].time) <= 5
        /\ calculate_distance(takeoff_events[g][1].pos, takeoff_events[t][1].pos) <= 3)
       => /\ takeoff_events[g][1].start_type = "tow"
          /\ takeoff_events[g][1].paired_with = t
          /\ takeoff_events[t][1].start_type = "tow_plane"
          /\ takeoff_events[t][1].paired_with = g

\* C5: an event of an aircraft is logged at least EVENT_COOLDOWN (10 s)
\* after the previous event logged for that aircraft.
C5_CooldownBetweenEvents ==
    [][\A a \in Aircraft : \A s \in Samples(FieldPositions) :
          (event_times[a] # None /\ Call(a, s) /\ logged'.event # None) =>
             now - event_times[a][1] >= 10]_vars

\* C5 witness: 5 s after its takeoff the glider sends a sample on the
\* ground, which would be a landing, and no event is logged for it.
C5_Witness ==
    /\ "G" \in DOMAIN aircraft_flight_states
    /\ aircraft_flight_states["G"].is_airborne = "True"
    /\ aircraft_flight_states["G"].last_event = "takeoff"
    /\ event_times["G"] # None
    /\ now - event_times["G"][1] = 5
    /\ logged.id = "G"
    /\ logged.ground_speed = 10
    /\ logged.altitude = Some(10)
    /\ logged.event = None

\* C6: a landing is logged only by a call that finds the flag airborne and
\* whose sample is not airborne (speed < 30 or altitude < 20) and at most at
\* 100 m; a sample that is not airborne and above 100 m logs no event and
\* leaves the flag airborne.
C6_LandingOnlyNearGround ==
    [][\A a \in Aircraft : \A s \in Samples(FieldPositions) :
          Call(a, s) =>
             /\ Fired("landing") =>
                   /\ StateOf(a).is_airborne = "True"
                   /\ s.ground_speed < 30 \/ s.altitude[1] < 20
                   /\ s.altitude[1] <= 100
             /\ (/\ StateOf(a).is_airborne = "True"
                 /\ s.altitude # None
                 /\ s.ground_speed < 30 \/ s.altitude[1] < 20
                 /\ s.altitude[1] > 100) =>
                   /\ logged'.event = None
                   /\ aircraft_flight_states'[a].is_airborne = "True"]_vars

\* C6 witness: the airborne glider sent a slow sample at 150 m outside the
\* cooldown: the sample is stored, no landing is logged, the flag stays.
C6_Witness ==
    /\ "G" \in DOMAIN aircraft_flight_states
    /\ aircraft_flight_states["G"].is_airborne = "True"
    /\ aircraft_flight_states["G"].last_position =
          Some([altitude |-> 150, ground_speed |-> 10])
    /\ logged.id = "G"
    /\ logged.altitude = Some(150)
    /\ logged.event = None

\* Some record of another aircraft lies within 5 s and 0.3 km of the sample.
CorrelatedTakeoff(a, s) ==
    \E i \in 1..Len(recent_takeoffs) :
       /\ recent_takeoffs[i].id # a
       /\ now - recent_takeoffs[i].time <= 5
       /\ recent_takeoffs[i].time - now <= 5
       /\ calculate_distance(s.pos, recent_takeoffs[i].pos) <= 3

\* C7: a takeoff of a glider (type Glider, model not on the roster) with no
\* Recent Takeoff Record of another aircraft within 5 s and 0.3 km is logged
\* with the label winch and no paired aircraft.
C7_LoneGliderIsWinch ==
    [][\A a \in Aircraft : \A s \in Samples(FieldPositions) :
          (/\ AircraftType(a) = "Glider"
           /\ ModelParts(AircraftModel(a)) \cap TOW_PLANE_MODELS = {}
           /\ ~CorrelatedTakeoff(a, s)
           /\ Call(a, s)
           /\ Fired("takeoff")) =>
             /\ logged'.event[1].start_type = "winch"
             /\ logged'.event[1].paired_with = NoneVal
             /\ logged'.event[1].pos = s.pos]_vars

\* C7 witness: the glider's takeoff is logged as a winch launch although the
\* tow plane took off at the same moment, 0.4 km away.
C7_Witness ==
    /\ logged.id = "G"
    /\ logged.event # None
    /\ logged.event[1].type = "takeoff"
    /\ logged.event[1].start_type = "winch"
    /\ \E i \in 1..Len(recent_takeoffs) :
          /\ recent_takeoffs[i].id = "T"
          /\ recent_takeoffs[i].time = logged.event[1].time
          /\ calculate_distance(recent_takeoffs[i].pos, logged.event[1].pos) = 4

\* C12: an event that is stored and sent to the webhook has a resolved
\* airfield ICAO code, of an airfield at most 5 km away, that is in the
\* registered-homefield cache when it is emitted; an event with no airfield
\* within 5 km, or whose airfield is not registered, is dropped.
C12_OnlyRegisteredHomefields ==
    [][\A a \in Aircraft : \A s \in Samples(AwayPositions) :
          (Call(a, s) /\ logged'.event # None) =>
             LET ev == logged'.event[1]
                 near == {i \in DOMAIN airfields :
                             Abs(s.pos - airfields[i].pos) <= AIRFIELD_MAX_DISTANCE}
             IN /\ ev.stored =>
                      /\ ev.airfield # NoneVal
                      /\ ev.airfield \in registered_homefields
                      /\ \E i \in near : airfields[i].icao = ev.airfield
                /\ (near = {} \/ ev.airfield \notin registered_homefields)
                      => ~ev.stored]_vars

\* C12 witness: a takeoff at the registered airfield EKAA was stored.
C12_Witness ==
    /\ logged.event # None
    /\ logged.event[1].type = "takeoff"
    /\ logged.event[1].stored
    /\ logged.event[1].airfield = "EKAA"
    /\ "EKAA" \in registered_homefields

\* C18: detect_launch_type never pairs an aircraft with itself: the partner
\* of a takeoff event is another aircraft or none, also when recent_takeoffs
\* holds an earlier takeoff of the aircraft.
C18_NeverPairedWithItself ==
    logged.event # None => logged.event[1].paired_with # logged.id

\* The glider takes off a second time, 20 s after its first takeoff, whose
\* record is still in recent_takeoffs.
C18_Witness ==
    /\ logged.id = "G"
    /\ logged.event # None
    /\ logged.event[1].type = "takeoff"
    /\ logged.event[1].time = 20
    /\ \E i \in DOMAIN recent_takeoffs :
          recent_takeoffs[i].id = "G" /\ recent_takeoffs[i].time = 0

\* C19: a sample that arrives within the 10 s cooldown of its aircraft is
\* still stored in the Flight State as the last sample; only the event is
\* suppressed.
C19_CooldownSampleUpdatesState ==
    [][\A a \in Aircraft, s \in Samples(FieldPositions) :
          (/\ Call(a, s)
           /\ s.altitude # None
           /\ a \in DOMAIN aircraft_flight_states
           /\ aircraft_flight_states[a].last_event_time # None
           /\ now - aircraft_flight_states[a].last_event_time[1] < 10)
             => /\ logged'.event = None
                /\ aircraft_flight_states'[a].last_position = Position(s)
                /\ aircraft_flight_states'[a].last_update = Some(now)]_vars

(***************************************************************************)
(* The claims about the variometer smoother.                               *)
(***************************************************************************)
\* The step is the call update_variometer(a, r).
VarioCall(a, r) ==
    /\ variometer_call'.id = a
    /\ UpdateVariometer(a, r)

\* The rates of the samples of list that are at most window seconds old.
Recent(list, window) ==
    LET inside == SelectSeq(list, LAMBDA x : now - x.time <= window)
    IN [i \in DOMAIN inside |-> inside[i].rate]

\* The last n elements of list.
LastN(list, n) ==
    IF Len(list) <= n THEN list ELSE SubSeq(list, Len(list) - n + 1, Len(list))

\* C13 as stated: update_variometer returns for each window the median of
\* all of the aircraft's samples of the last 30 s (60 s), and nothing when
\* the 30 s window holds fewer than 3 samples (the 60 s window fewer than 5).
C13_MedianOfAllInWindow ==
    [][\A a \in VarioAircraft : \A r \in VarioRates :
          VarioCall(a, r) =>
             LET result == variometer_call'.result[1]
                 w30 == Recent(variometer_all'[a], 30)
                 w60 == Recent(variometer_all'[a], 60)
             IN /\ result.climb_rate_30s_avg =
                      IF Len(w30) >= 3 THEN Some(Median(w30)) ELSE None
                /\ result.climb_rate_60s_avg =
                      IF Len(w60) >= 5 THEN Some(Median(w60)) ELSE None]_vars

\* C13 amended: the windows are taken over the aircraft's latest 60 samples,
\* the ones the ring still holds, and the median is rounded to two decimals.
C13_MedianOfKeptInWindow ==
    [][\A a \in VarioAircraft : \A r \in VarioRates :
          VarioCall(a, r) =>
             LET result == variometer_call'.result[1]
                 kept == LastN(variometer_all'[a], 60)
                 w30 == Recent(kept, 30)
                 w60 == Recent(kept, 60)
             IN /\ result.climb_rate_30s_avg =
                      IF Len(w30) >= 3 THEN Some(Round2(Median(w30))) ELSE None
                /\ result.climb_rate_60s_avg =
                      IF Len(w60) >= 5 THEN Some(Round2(Median(w60))) ELSE None]_vars

\* C13 witness: 61 samples of one instant, 31 at 1.000 m/s and then 30 at
\* 3.004 m/s; the ring has dropped the first, and both values are 2.00, the
\* median of the 60 samples kept (the median of all 61 is 1.000).
C13_Witness ==
    /\ Len(variometer_all["G"]) = 61
    /\ \A i \in 1..31 : variometer_all["G"][i].rate = 1000
    /\ \A i \in 32..61 : variometer_all["G"][i].rate = 3004
    /\ variometer_call.result # None
    /\ variometer_call.result[1].data_points_60s = 60
    /\ variometer_call.result[1].climb_rate_30s_avg = Some(2000)
    /\ variometer_call.result[1].climb_rate_60s_avg = Some(2000)

(***************************************************************************)
(* The claims about the winch release detector.                            *)
(***************************************************************************)
\* The step is the call update_winch_tracking(a, h, c).
WinchCall(a, h, c) ==
    /\ winch_call'.id = a
    /\ winch_call'.altitude = h
    /\ winch_call'.climb_rate = c
    /\ UpdateWinchTracking(a, h, c)

Highest(S) == CHOOSE x \in S : \A y \in S : y <= x

C11_ReleaseAtMostOnce ==
    [][\A a \in WinchAircraft : \A h \in WinchAltitudes : \A c \in ClimbRates :
          (WinchCall(a, h, c) /\ winch_call'.result # None) =>
             /\ winch_outcome[a].releases = 0
             /\ ~winch_outcome[a].abandoned]_vars

\* C11 witness: a release was returned, and a later sample of the same launch
\* with a weak climb returned nothing.
C11_Witness ==
    /\ winch_outcome["G"].releases = 1
    /\ winch_call.id = "G"
    /\ winch_call.altitude = Some(200)
    /\ winch_call.climb_rate = 4
    /\ winch_call.result = None
    /\ winch_seen["G"] = {50, 200}

(***************************************************************************)
(* The claims about the beacon thread, the reaper thread and the broadcast *)
(* loop.                                                                   *)
(***************************************************************************)
\* C3: the update and removal messages of one primary-source aircraft are
\* broadcast in the order in which the producers enqueued them, the relative
\* order of a removal and an update of that aircraft included.
C3_BroadcastInEnqueueOrder ==
    \A i \in DOMAIN sent : \A j \in DOMAIN sent :
        (i < j /\ sent[i].id = sent[j].id) => sent[i].seq < sent[j].seq

\* C4: under every interleaving of the reaper thread with the beacon thread,
\* an entry leaves the primary-source Live State only when its last-seen time
\* is more than the removal timeout (600 s) old at the moment of deletion, and
\* the deletion enqueues exactly one removal message.
C4_DeletedOnlyWhenStale ==
    [][\A a \in DOMAIN aircraft_data :
          a \notin DOMAIN aircraft_data' =>
             /\ now - aircraft_data[a].last_seen > AIRCRAFT_REMOVAL_TIMEOUT
             /\ aircraft_removal_queue' =
                   Append(aircraft_removal_queue,
                          Message("aircraft_removed", a, produced + 1))]_vars

(***************************************************************************)
(* The claims about the beacon handler.                                    *)
(***************************************************************************)
\* The step is process_beacon handling the raw beacon.
Handles(raw) == beacon_call'.n = beacon_call.n + 1 /\ beacon_call'.raw = raw

\* A beacon that fails to parse, is not an aircraft beacon, lacks a
\* coordinate or an identifier, or has a coordinate that is not a number.
Discardable(raw) ==
    \/ ~raw.parses
    \/ raw.beacon_type \notin {"aprs_aircraft", "flarm", "tracker"}
    \/ raw.latitude = "absent" \/ raw.longitude = "absent"
    \/ raw.address = NoneVal /\ raw.name = NoneVal
    \/ raw.latitude = "text" \/ raw.longitude = "text"

\* C14: a beacon that fails to parse, is not an aircraft beacon, lacks
\* latitude/longitude or an identifier, or has non-numeric coordinates is
\* discarded: the Live State, the Flight States, the variometer histories,
\* the winch table and the outbound queues are as they were before it.
C14_DiscardedBeaconChangesNothing ==
    [][\A raw \in Beacons :
          Handles(raw) /\ Discardable(raw)
             => UNCHANGED <<aircraft_data, aircraft_flight_states,
                            recent_takeoffs, variometer_history,
                            winch_launch_data, aircraft_update_queue,
                            aircraft_removal_queue, adsb_aircraft_queue>>]_vars

\* A beacon with a text latitude was handled after an accepted beacon of the
\* club glider: the tables and the queue hold what the first beacon left.
C14_Witness ==
    /\ beacon_call.n = 2
    /\ beacon_call.raw.latitude = "text"
    /\ "G" \in DOMAIN aircraft_data
    /\ "G" \in DOMAIN aircraft_flight_states
    /\ "G" \in DOMAIN variometer_history
    /\ Len(variometer_history["G"]) = 1
    /\ Len(aircraft_update_queue) = 1

(***************************************************************************)
(* The claims about the broadcast loop and its subscribers.                *)
(***************************************************************************)
\* How often message n stands on the queues, was taken off them, and was
\* written to subscriber c.
QueuedCount(n) ==
    Cardinality({i \in DOMAIN aircraft_update_queue : aircraft_update_queue[i].seq = n})
      + Cardinality({i \in DOMAIN aircraft_removal_queue : aircraft_removal_queue[i].seq = n})
      + Cardinality({i \in DOMAIN adsb_aircraft_queue : adsb_aircraft_queue[i].seq = n})

DequeuedCount(n) == Cardinality({i \in DOMAIN dequeued : dequeued[i].seq = n})

DeliveredCount(c, n) == Cardinality({i \in DOMAIN delivered[c] : delivered[c][i] = n})

\* C15: every enqueued message stands on its queue until the broadcast loop
\* takes it off, which happens once; it is written to each subscriber at most
\* once, and only to subscribers connected when it was taken off: a message
\* taken off while no subscriber is connected is written to nobody, then or
\* later.
C15_DequeuedOnceDeliveredAtMostOnce ==
    \A n \in 1..produced :
        /\ QueuedCount(n) + DequeuedCount(n) = 1
        /\ \A c \in Clients :
              /\ DeliveredCount(c, n) <= 1
              /\ DeliveredCount(c, n) = 1 =>
                    \E i \in DOMAIN dequeued :
                        dequeued[i].seq = n /\ c \in dequeued[i].clients
        /\ \A i \in DOMAIN dequeued :
              dequeued[i].seq = n /\ dequeued[i].clients = {} =>
                 \A c \in Clients : DeliveredCount(c, n) = 0

\* The first message was taken off with no subscriber connected, the second
\* with both connected and written to both; neither has received the first.
C15_Witness ==
    /\ Len(dequeued) = 2
    /\ dequeued[1].clients = {}
    /\ dequeued[2].clients = Clients
    /\ connected_clients = Clients
    /\ \A c \in Clients : delivered[c] = <<dequeued[2].seq>>

\* C16: when the write of a broadcast to a subscriber fails, the message is
\* still written to every other connected subscriber, and the loop stays where
\* it is and goes on with the next message of the queue.
C16_FailedSendDoesNotStopBroadcast ==
    [][Len(dequeued') = Len(dequeued) + 1 =>
          LET d == dequeued'[Len(dequeued')]
          IN d.encodes /\ d.failed # {} =>
                /\ \A c \in d.clients \ d.failed :
                      delivered'[c] = Append(delivered[c], d.seq)
                /\ queue_task' = queue_task]_vars

\* The write of the first message to c1 failed and c2 received it; the second
\* message then reached both.
C16_Witness ==
    /\ Len(dequeued) = 2
    /\ dequeued[1].clients = Clients
    /\ dequeued[1].encodes
    /\ dequeued[1].failed = {"c1"}
    /\ delivered["c1"] = <<dequeued[2].seq>>
    /\ delivered["c2"] = <<dequeued[1].seq, dequeued[2].seq>>

\* C20: when the takeoff of a club glider is classified as a winch launch,
\* winch tracking is started for it: after the beacon a Winch Tracking Record
\* of the aircraft exists, active and with the takeoff as its start.
C20_WinchTakeoffStartsTracking ==
    [][\A a \in club_flarm_ids :
          (/\ beacon_call'.n = beacon_call.n + 1
           /\ Accepted(beacon_call'.raw)
           /\ AircraftId(beacon_call'.raw) = a
           /\ logged'.id = a
           /\ logged'.event # None
           /\ logged'.event[1].type = "takeoff"
           /\ logged'.event[1].start_type = "winch")
             => /\ a \in DOMAIN winch_launch_data'
                /\ winch_launch_data'[a].is_in_winch
                /\ winch_launch_data'[a].launch_start_time = now]_vars

(***************************************************************************)
(* The claims about the loops.                                             *)
(***************************************************************************)
\* C17: no exception raised while one beacon, one poller tick, one reaper
\* tick, one flight-state cleanup tick or one queued message is processed
\* ends the loop that owns it: every loop keeps running.
C17_LoopsSurviveExceptions ==
    \A l \in Loops : loop_state[l].running

\* Every loop has caught an exception and has completed a tick after it.
C17_Witness ==
    \A l \in Loops :
        /\ loop_state[l].running
        /\ loop_state[l].caught >= 1
        /\ loop_state[l].ticks = 2
        /\ loop_state[l].last = NoneVal

(***************************************************************************)
(* The claims about the presence-gated poller.                             *)
(***************************************************************************)
\* The step is a tick of the poller.
Tick == adsb_tick'.n = adsb_tick.n + 1

\* The messages the step appends to the secondary queue.
Enqueued ==
    SubSeq(adsb_aircraft_queue', Len(adsb_aircraft_queue) + 1,
           Len(adsb_aircraft_queue'))

\* C8: on the tick at which the poller sees the subscriber count at zero
\* after a tick that saw at least one subscriber, it enqueues exactly one
\* removal message for every aircraft of the secondary-source Live State and
\* nothing else, and the table is empty when the tick ends.
C8_ClearOnLastSubscriberGone ==
    [][(/\ Tick
        /\ get_connected_clients_count
        /\ connected_clients = {}
        /\ last_had_clients) =>
          /\ Len(adsb_aircraft_queue') >= Len(adsb_aircraft_queue)
          /\ SubSeq(adsb_aircraft_queue', 1, Len(adsb_aircraft_queue))
                = adsb_aircraft_queue
          /\ Len(Enqueued) = Cardinality(DOMAIN adsb_aircraft_data)
          /\ \A x \in DOMAIN adsb_aircraft_data :
                \E i \in DOMAIN Enqueued :
                    /\ Enqueued[i].type = "remove"
                    /\ Enqueued[i].aircraft_id = x
          /\ DOMAIN adsb_aircraft_data' = {}]_vars

\* C8 witness: two aircraft were tracked, the last subscriber left, and the
\* tick that saw it has enqueued the two removals and emptied the table.
C8_Witness ==
    /\ adsb_tick.cleared
    /\ connected_clients = {}
    /\ DOMAIN adsb_aircraft_data = {}
    /\ Len(adsb_aircraft_queue) = 2
    /\ {adsb_aircraft_queue[i].aircraft_id : i \in DOMAIN adsb_aircraft_queue}
          = {"adsb_A1", "adsb_B2"}
    /\ \A i \in DOMAIN adsb_aircraft_queue : adsb_aircraft_queue[i].type = "remove"

\* C9: on a tick at which the subscriber count is zero, or at which no
\* subscriber-count callback is installed yet, the secondary source is not
\* fetched and no update message is enqueued.
C9_NoFetchWithoutSubscribers ==
    [][(Tick /\ (connected_clients = {} \/ ~get_connected_clients_count)) =>
          /\ ~adsb_tick'.fetched
          /\ \A i \in DOMAIN Enqueued : Enqueued[i].type # "update"]_vars

\* C9 witness: the callback is installed, the subscribers have been gone for
\* two ticks, and the second of them neither cleared nor fetched.
C9_Witness ==
    /\ adsb_tick.n >= 3
    /\ get_connected_clients_count
    /\ connected_clients = {}
    /\ ~adsb_tick.has_clients
    /\ ~adsb_tick.cleared
    /\ ~adsb_tick.fetched
    /\ ~last_had_clients
    /\ adsb_aircraft_queue = <<>>

(***************************************************************************)
(* The claims about the server as main() starts it.                        *)
(***************************************************************************)
\* The airfields of the gazetteer file at most 5 km from pos whose ICAO code
\* is a registered homefield.
RegisteredNear(pos) ==
    {i \in DOMAIN AirfieldsFile :
        /\ calculate_distance(pos, AirfieldsFile[i].pos) <= AIRFIELD_MAX_DISTANCE
        /\ AirfieldsFile[i].icao \in registered_homefields}

\* C21: once the server is started through main(), a takeoff that fires for
\* an aircraft within 5 km of an airfield whose ICAO code is a registered
\* homefield is stored and sent to the webhook.
C21_TakeoffAtHomefieldStored ==
    [][\A s \in Samples(AwayPositions) :
          (/\ Started
           /\ Call("G", s)
           /\ Fired("takeoff")
           /\ RegisteredNear(s.pos) # {}) => logged'.event[1].stored]_vars

\* C21, the case: after main(), a takeoff fired at the registered airfield.
C21_Case ==
    /\ Started
    /\ logged.event # None
    /\ logged.event[1].type = "takeoff"
    /\ RegisteredNear(logged.event[1].pos) # {}

(***************************************************************************)
(* The claims about the poller thread against the event loop.              *)
(***************************************************************************)
\* C22: for a connected subscriber, once the secondary queue is drained and
\* the poller is between two ticks, the picture the subscriber has built
\* from its initial snapshot and the updates and removals it received since
\* equals the secondary Live State table.
C22_ViewEqualsTable ==
    \A c \in connected_clients :
        (adsb_aircraft_queue = <<>> /\ poller_pc = "idle")
           => view[c] = Some(Picture(adsb_aircraft_data))

\* C22, the case: a connected subscriber received a message, the queue is
\* drained and its picture holds an aircraft.
C22_Case ==
    \E c \in connected_clients :
        /\ adsb_aircraft_queue = <<>>
        /\ poller_pc = "idle"
        /\ view[c] # None
        /\ DOMAIN view[c][1] # {}

(***************************************************************************)
(* The claims about the beacon thread against the cleanup thread.          *)
(***************************************************************************)
\* The Recent Takeoff Record of the latest takeoff of a is in the list.
Recorded(a) ==
    \E i \in DOMAIN recent_takeoffs :
        /\ recent_takeoffs[i].id = a
        /\ recent_takeoffs[i].time = takeoff_events[a][1].time

\* C23: the Recent Takeoff Record the beacon thread appended for a takeoff
\* is in recent_takeoffs as long as it is less than 30 s old, whatever the
\* cleanup thread does meanwhile.
C23_RecordKeptFor30s ==
    \A a \in Aircraft :
        (/\ takeoff_events[a] # None
         /\ now - takeoff_events[a][1].time < RECENT_TAKEOFF_HORIZON) => Recorded(a)

\* C23, the case: a takeoff fired while cleanup_state stood between its
\* filter and its assignment.
C23_Case ==
    \E a \in Aircraft :
        /\ takeoff_events[a] # None
        /\ now - takeoff_events[a][1].time < RECENT_TAKEOFF_HORIZON
        /\ cleanup_filtered # None

(***************************************************************************)
(* The claims about the broadcast loop under a steady stream of beacons.   *)
(***************************************************************************)
\* Tracked message n waits on one of the three queues.
OnQueue(n) ==
    \E q \in {aircraft_update_queue, aircraft_removal_queue, adsb_aircraft_queue} :
        \E i \in DOMAIN q : q[i].seq = n

\* C24: every message put on one of the three queues is eventually taken
\* off it by process_update_queues, also while the producers keep putting
\* messages on the other queues.
C24_EveryMessageDequeued ==
    \A n \in 1..MaxQueued : OnQueue(n) ~> ~OnQueue(n)

\* C24, the case: a removal waits while an update is on the update queue
\* and the task stands at the update queue.
C24_Case ==
    /\ queue_task = "updates"
    /\ aircraft_update_queue # <<>>
    /\ aircraft_removal_queue # <<>>

(***************************************************************************)
(* The claims about the poller's diff against its table.                   *)
(***************************************************************************)
\* The source fields of a fetched aircraft are those of the table's entry.
SameSourceFields(entry, normalized) ==
    /\ entry.hex = normalized.hex
    /\ entry.flight = normalized.flight
    /\ entry.altitude = normalized.altitude

\* C25: a successful fetch enqueues no update message for an aircraft that
\* is in the secondary-source Live State already and comes back with the
\* source fields the table holds for it.
C25_UnchangedAircraftNotEnqueued ==
    [][\A result \in FetchResults, latency \in Latencies :
          (AdsbTick(result, latency) /\ HasClients /\ result # None) =>
             LET current == CurrentAircraft(result[1], now + latency, <<>>)
             IN \A k \in DOMAIN current :
                   (/\ current[k].aircraft_id \in DOMAIN adsb_aircraft_data
                    /\ SameSourceFields(adsb_aircraft_data[current[k].aircraft_id],
                                        current[k]))
                      => \A i \in DOMAIN Enqueued :
                            ~(/\ Enqueued[i].type = "update"
                              /\ Enqueued[i].aircraft_id = current[k].aircraft_id)]_vars

\* The removal messages the step enqueues for aircraft x.
RemovalsOf(x) ==
    {i \in DOMAIN Enqueued : Enqueued[i].type = "remove" /\ Enqueued[i].aircraft_id = x}

\* C26: after a tick that fetched successfully while subscribers exist, the
\* identifiers of the secondary-source Live State are those of the fetched
\* aircraft that have an identifier and pass both filters, and exactly one
\* removal message was enqueued for every identifier the table held before
\* and that is not among them.
C26_TableIsTheFetch ==
    [][(Tick /\ HasClients /\ adsb_tick'.passing # None) =>
          /\ DOMAIN adsb_aircraft_data' = adsb_tick'.passing[1]
          /\ \A x \in DOMAIN adsb_aircraft_data \ adsb_tick'.passing[1] :
                Cardinality(RemovalsOf(x)) = 1]_vars

\* C26 witness: a fetch kept adsb_A1 and no longer returned adsb_B2, whose
\* removal is the last message of the queue.
C26_Witness ==
    /\ adsb_tick.fetched
    /\ connected_clients # {}
    /\ DOMAIN adsb_aircraft_data = {"adsb_A1"}
    /\ adsb_aircraft_queue # <<>>
    /\ adsb_aircraft_queue[Len(adsb_aircraft_queue)].type = "remove"
    /\ adsb_aircraft_queue[Len(adsb_aircraft_queue)].aircraft_id = "adsb_B2"

(***************************************************************************)
(* The claims about the launch-method label of a flight.                   *)
(***************************************************************************)
\* The label the latest takeoff of a stored, NoneVal when the latest event
\* of a is no takeoff.
LabelOfFlight(a) ==
    IF takeoff_events[a] # None /\ event_times[a] = Some(takeoff_events[a][1].time)
    THEN takeoff_events[a][1].start_type
    ELSE NoneVal

\* C27: a landing event carries the launch-method label the aircraft's most
\* recent takeoff stored (tow, tow_plane, winch or none), and the Flight
\* State holds no label after the landing.
C27_LandingCarriesTakeoffLabel ==
    [][\A a \in Aircraft : \A s \in PairSamples :
          (Call(a, s) /\ Fired("landing")) =>
             /\ logged'.event[1].start_type = LabelOfFlight(a)
             /\ aircraft_flight_states'[a].start_type = NoneVal]_vars

\* C27 witness: the tow plane took off after the glider at t=0, which
\* stored tow_plane, landed, took off alone at t=20, and its landing at
\* t=30 carries no label.
C27_Witness ==
    /\ now = 30
    /\ logged.id = "T"
    /\ logged.event # None
    /\ logged.event[1].type = "landing"
    /\ logged.event[1].time = 30
    /\ logged.event[1].start_type = NoneVal
    /\ takeoff_events["T"] # None
    /\ takeoff_events["T"][1].time = 20
    /\ takeoff_events["T"][1].start_type = NoneVal
    /\ \E i, j \in DOMAIN recent_takeoffs :
          /\ i < j
          /\ recent_takeoffs[i].id = "G" /\ recent_takeoffs[i].time = 0
          /\ recent_takeoffs[j].id = "T" /\ recent_takeoffs[j].time = 0

(***************************************************************************)
(* The claim about the reaper under a stream of beacons.                   *)
(***************************************************************************)
\* A removal message of a stands on the removal queue.
RemovalQueued(a) ==
    \E i \in DOMAIN aircraft_removal_queue :
        /\ aircraft_removal_queue[i].type = "aircraft_removed"
        /\ aircraft_removal_queue[i].id = a

\* C28: an aircraft of the primary source that has stopped sending beacons
\* (the glider, silent after time 0) is eventually deleted from the Live
\* State by the reaper, with a removal message enqueued, while beacons of the
\* other aircraft keep arriving and insert entries during the reaper's scans;
\* the threads are scheduled fairly.
C28_SilentAircraftReaped ==
    ("G" \in DOMAIN aircraft_data)
       ~> ("G" \notin DOMAIN aircraft_data /\ RemovalQueued("G"))

\* C28 witness: a scan of the reaper was broken by the first beacon of the
\* tow plane, and a later pass has deleted the silent glider and enqueued
\* its removal; the tow plane is in the table.
C28_Witness ==
    /\ loop_state["reaper"].caught >= 1
    /\ loop_state["reaper"].last = "Exception"
    /\ "G" \notin DOMAIN aircraft_data
    /\ "T" \in DOMAIN aircraft_data
    /\ RemovalQueued("G")
    /\ now > AIRCRAFT_REMOVAL_TIMEOUT

(***************************************************************************)
(* The claim about the club-aircraft cache during its refresh.             *)
(***************************************************************************)
\* C29: while update_club_planes_cache refreshes the cache, a beacon of an
\* aircraft that is in the club set before the refresh and after it is
\* handled as the beacon of a club aircraft: its climb rate goes to the
\* variometer (ogn_client.py:122-123).
C29_ClubAircraftDuringRefresh ==
    [][\A raw \in Beacons :
          (/\ Handles(raw)
           /\ Accepted(raw)
           /\ cache_refresh # None
           /\ AircraftId(raw) \in cache_refresh[1].club_flarm_ids
           /\ AircraftId(raw) \in cache_refresh[1].new_flarm_ids)
             => Len(variometer_all'[AircraftId(raw)])
                   = Len(variometer_all[AircraftId(raw)]) + 1]_vars

(***************************************************************************)
(* The claim about where the event loop takes the live states it sends.    *)
(***************************************************************************)
\* C30: every message with live states that the event loop writes to the
\* subscribers is a message it took off an outbound queue in that step; the
\* event loop sends nothing it read from the Live State tables.
C30_SentOnlyFromQueues ==
    [][Len(sent') > Len(sent) =>
          LET message == sent'[Len(sent')]
          IN \/ /\ aircraft_update_queue # <<>>
                /\ message = Head(aircraft_update_queue)
                /\ aircraft_update_queue' = Tail(aircraft_update_queue)
             \/ /\ aircraft_removal_queue # <<>>
                /\ message = Head(aircraft_removal_queue)
                /\ aircraft_removal_queue' = Tail(aircraft_removal_queue)]_vars

(***************************************************************************)
(* The claim about the store and the enqueue of process_beacon.            *)
(***************************************************************************)
\* C31: the handler of an accepted beacon, which has stored the entry of its
\* aircraft (lines 126-141), ends with exactly one update message of that
\* aircraft put on the update queue (line 205), and the entry is in the Live
\* State when it ends.
C31_StoredBeaconIsEnqueued ==
    [][\A a \in Aircraft :
          (beacon_pc = Some(a) /\ beacon_pc' = None) =>
             /\ a \in DOMAIN aircraft_data
             /\ aircraft_update_queue' =
                   Append(aircraft_update_queue,
                          Message("aircraft_update", a, produced + 1))]_vars

(***************************************************************************)
(* The claim about a failed fetch of the secondary source.                 *)
(***************************************************************************)
\* C32: a tick of the poller whose fetch fails (fetch_aircraft_in_area
\* returns None) leaves the secondary-source Live State and the secondary
\* queue as they were, enqueues no removal, and is followed by the sleep of
\* ADSB_UPDATE_INTERVAL before the next fetch.
C32_FailedFetchChangesNothing ==
    [][(/\ Tick
        /\ adsb_tick'.has_clients
        /\ adsb_tick'.fetched
        /\ adsb_tick'.passing = None) =>
          /\ adsb_aircraft_data' = adsb_aircraft_data
          /\ adsb_aircraft_queue' = adsb_aircraft_queue
          /\ now' >= now + ADSB_UPDATE_INTERVAL]_vars

(***************************************************************************)
(* The claim about the idle cleanup of the Flight States.                  *)
(***************************************************************************)
\* C33: the Flight State entry of an aircraft that has stopped sending
\* samples is eventually destroyed by cleanup_state, whichever call of
\* process_flight_events created the entry.
C33_IdleFlightStateDestroyed ==
    ("G" \in DOMAIN aircraft_flight_states)
       ~> ("G" \notin DOMAIN aircraft_flight_states)

(***************************************************************************)
(* The claim about the filters of the poller.                              *)
(***************************************************************************)
\* C34: no entry of the secondary-source Live State has an altitude above
\* 5000 ft or the callsign TWR.
C34_NoHighOrTowerEntry ==
    \A x \in DOMAIN adsb_aircraft_data :
        /\ ~(/\ adsb_aircraft_data[x].altitude # None
             /\ adsb_aircraft_data[x].altitude[1] > 5000)
        /\ adsb_aircraft_data[x].flight # "TWR"

\* C34 witness: after three fetches the table holds one aircraft, at 5000 ft
\* exactly, and the other identifier the source reports, whose answers are
\* a tower at 5000 ft or an aircraft without altitude, is not in it.
C34_Witness ==
    /\ adsb_tick.n = MaxTicks
    /\ adsb_tick.fetched
    /\ adsb_tick.passing = Some({"adsb_B2"})
    /\ DOMAIN adsb_aircraft_data = {"adsb_B2"}
    /\ adsb_aircraft_data["adsb_B2"].altitude = Some(5000)
    /\ adsb_aircraft_data["adsb_B2"].flight = "SAS1"

C36_GroundFlagMeansGroundSample ==
    /\ [](\A a \in DOMAIN aircraft_flight_states :
             aircraft_flight_states[a].is_airborne = "False" =>
                /\ aircraft_flight_states[a].last_position # None
                /\ \/ aircraft_flight_states[a].last_position[1].ground_speed < 30
                   \/ aircraft_flight_states[a].last_position[1].altitude < 20)
    /\ [][\A s \in Samples({0}) :
             (/\ "G" \in DOMAIN aircraft_flight_states
              /\ aircraft_flight_states["G"].is_airborne = "False"
              /\ ~InCooldown(aircraft_flight_states["G"])
              /\ s.altitude # None
              /\ s.ground_speed >= 30
              /\ s.altitude[1] >= 20
              /\ Call("G", s)) =>
                /\ Fired("takeoff")
                /\ aircraft_flight_states'["G"].is_airborne = "True"
                /\ aircraft_flight_states'["G"].last_event = "takeoff"
                /\ aircraft_flight_states'["G"].last_event_time = Some(now)]_vars

\* C36 witness: the glider landed at 10 s, was seen fast at 10 m at 20 s with
\* its flag still False, and the airborne sample that followed fired a
\* takeoff.
C36_Witness ==
    /\ now = 20
    /\ "G" \in DOMAIN aircraft_flight_states
    /\ aircraft_flight_states["G"].is_airborne = "True"
    /\ aircraft_flight_states["G"].last_event = "takeoff"
    /\ aircraft_flight_states["G"].last_event_time = Some(20)
    /\ aircraft_flight_states["G"].takeoff_time = Some(20)
    /\ event_times["G"] = Some(20)
    /\ logged.id = "G"
    /\ logged.ground_speed = 30
    /\ logged.altitude = Some(100)
    /\ logged.event # None
    /\ logged.event[1].type = "takeoff"

\* C37: the fired transitions of an aircraft alternate for as long as its
\* Flight State exists. last_event is written by every fired transition
\* (lines 383 and 417) and by nothing else, so it names the latest
\* transition fired since the entry was created: a takeoff fires only when
\* it is not "takeoff", a landing only when it is not "landing", and the
\* first transition of an entry may be either.
C37_TransitionsAlternate ==
    [][\A s \in Samples({0}) :
          Call("G", s) =>
             /\ Fired("takeoff") =>
                   /\ StateOf("G").last_event # "takeoff"
                   /\ StateOf("G").is_airborne = "False"
             /\ Fired("landing") =>
                   /\ StateOf("G").last_event # "landing"
                   /\ StateOf("G").is_airborne = "True"]_vars

\* C37 witness: one Flight State saw a takeoff at 0 s or 10 s, a landing, a
\* second takeoff at 20 s and a second landing at 30 s.
C37_Witness ==
    /\ now = 30
    /\ "G" \in DOMAIN aircraft_flight_states
    /\ aircraft_flight_states["G"].last_event = "landing"
    /\ aircraft_flight_states["G"].last_event_time = Some(30)
    /\ aircraft_flight_states["G"].takeoff_time = Some(20)
    /\ aircraft_flight_states["G"].is_airborne = "False"
    /\ logged.event # None
    /\ logged.event[1].type = "landing"

(***************************************************************************)
(* The claim about the removals of the secondary source.                   *)
(***************************************************************************)
\* C38: a removal message is enqueued only for an aircraft that is in the
\* secondary-source Live State at that moment, whether the clear, the diff
\* or the staleness sweep enqueues it, and an aircraft enters the table only
\* together with an update message; so in the queue a removal of an aircraft
\* follows an update of it with no other removal of it in between, and an
\* aircraft whose latest queued message is a removal is not in the table.
C38_RemovalFollowsUpdate ==
    /\ [](\A i \in DOMAIN adsb_aircraft_queue :
             (/\ adsb_aircraft_queue[i].type = "remove"
              /\ \A j \in DOMAIN adsb_aircraft_queue :
                    j > i => adsb_aircraft_queue[j].aircraft_id
                                # adsb_aircraft_queue[i].aircraft_id)
                => adsb_aircraft_queue[i].aircraft_id \notin DOMAIN adsb_aircraft_data)
    /\ [][Tick =>
             /\ \A i \in DOMAIN Enqueued :
                   Enqueued[i].type = "remove" =>
                      LET x     == Enqueued[i].aircraft_id
                          prior == {j \in 1..(i - 1) : Enqueued[j].aircraft_id = x}
                      IN IF prior = {} THEN x \in DOMAIN adsb_aircraft_data
                         ELSE \E j \in prior :
                                 /\ \A k \in prior : k <= j
                                 /\ Enqueued[j].type = "update"
             /\ \A x \in DOMAIN adsb_aircraft_data' \ DOMAIN adsb_aircraft_data :
                   \E i \in DOMAIN Enqueued :
                       /\ Enqueued[i].type = "update"
                       /\ Enqueued[i].aircraft_id = x]_vars

\* C38 witness: adsb_A1 was fetched and announced, the next fetch failed
\* after 600 s, and the staleness sweep of that tick removed the aircraft:
\* the queue holds its update and then its removal.
C38_Witness ==
    /\ adsb_tick.has_clients
    /\ adsb_tick.passing = None
    /\ "adsb_A1" \notin DOMAIN adsb_aircraft_data
    /\ Len(adsb_aircraft_queue) = 2
    /\ adsb_aircraft_queue[1].type = "update"
    /\ adsb_aircraft_queue[1].aircraft_id = "adsb_A1"
    /\ adsb_aircraft_queue[2].type = "remove"
    /\ adsb_aircraft_queue[2].aircraft_id = "adsb_A1"

(***************************************************************************)
(* The claim about the transitions whose event the homefield filter drops. *)
(***************************************************************************)
\* C39: a transition whose event log_event drops (no airfield within 5 km,
\* or an airfield that is not a registered homefield) still changes the
\* airborne flag and sets last_event_time to the time of the call; and a
\* sample that arrives within 10 s of such a transition is skipped like one
\* that follows an emitted event.
C39_DroppedEventStillStartsCooldown ==
    [][\A s \in Samples(AwayPositions) :
          Call("G", s) =>
             /\ (logged'.event # None /\ ~logged'.event[1].stored) =>
                   /\ StateOf("G").is_airborne # NoneVal
                   /\ aircraft_flight_states'["G"].is_airborne # StateOf("G").is_airborne
                   /\ aircraft_flight_states'["G"].is_airborne =
                         IF logged'.event[1].type = "takeoff" THEN "True" ELSE "False"
                   /\ aircraft_flight_states'["G"].last_event = logged'.event[1].type
                   /\ aircraft_flight_states'["G"].last_event_time = Some(now)
             /\ (/\ logged.id = "G"
                 /\ logged.event # None
                 /\ ~logged.event[1].stored
                 /\ "G" \in DOMAIN aircraft_flight_states
                 /\ aircraft_flight_states["G"].last_event_time
                       = Some(logged.event[1].time)
                 /\ now - logged.event[1].time < EVENT_COOLDOWN) =>
                   /\ logged'.event = None
                   /\ aircraft_flight_states' = aircraft_flight_states]_vars

\* C39 witness: the glider took off 6 km from the airfield at 0 s, the event
\* was dropped, and a sample on the ground 5 s later was skipped.
C39_Witness ==
    /\ now = 5
    /\ takeoff_events["G"] # None
    /\ takeoff_events["G"][1].pos = 60
    /\ takeoff_events["G"][1].time = 0
    /\ "G" \in DOMAIN aircraft_flight_states
    /\ aircraft_flight_states["G"].is_airborne = "True"
    /\ aircraft_flight_states["G"].last_event_time = Some(0)
    /\ aircraft_flight_states["G"].last_position
          = Some([altitude |-> 100, ground_speed |-> 30])
    /\ logged.id = "G"
    /\ logged.ground_speed = 10
    /\ logged.altitude = Some(10)
    /\ logged.event = None

====
